---------------------------- MODULE Spec2Model ----------------------------
(***************************************************************************)
(* Model of the student-performance analysis pipeline:                     *)
(*   data_processor.py : extract_subject_from_title, process_student_data  *)
(*                                                                         *)
(* JSON objects are TLA+ functions whose DOMAIN is the set of present      *)
(* keys; a field that is absent from the JSON is absent from the DOMAIN.   *)
(* Strings that the code converts (lower(), capitalize(), regex search)    *)
(* are sequences of one-character strings, so that the conversions are     *)
(* computed character by character.  Opaque strings (chapter and concept   *)
(* titles, names) are TLA+ strings.  Numbers with decimals (percentages,   *)
(* averages) are integers counting hundredths: 4.0 is 400.                 *)
(***************************************************************************)
EXTENDS Integers, Sequences, FiniteSets, TLC

VARIABLES
    pc,              \* position of the modelled call
    section_title,   \* argument of extract_subject_from_title
    subject_name,    \* its return value
    q_data,          \* one raw question of a section (loop variable, line 67)
    flat_q,          \* the row appended to all_questions_list for q_data
    data,            \* argument of process_student_data
    processed_data,  \* its return value
    exc,             \* the exception it raised, "none" if it returned
    section_data,    \* one raw section (loop variable of line 62)
    json_file,       \* the file at json_file_path, as open and json.load see it
    raw_data,        \* return value of load_data (main.py line 19)
    log,             \* the lines printed and the functions called, in order
    run_result,      \* outcome of run_full_analysis_and_report_generation
    model,           \* llm_handler.model is set (lines 11-32), FALSE for None
    processed_data_str,  \* argument of generate_feedback
    service,         \* what model.generate_content does when called
    ai_feedback,     \* return value of generate_feedback
    data_for_llm_context,  \* the dictionary format_data_for_llm formats (line 62)
    report,          \* what generate_pdf_report was given and what it rendered
    json_files_to_process,  \* main.py line 81: the files of the batch
    next_file,       \* position of the loop of main.py line 107
    successful_reports,     \* main.py line 103
    failed_reports,  \* main.py line 104
    files_attempted, \* the files the loop has passed to the pipeline, in order
    records,         \* the arguments of two calls of process_student_data
    local_pc,        \* the position of each of the two calls
    all_questions_list,     \* the local list of line 61 of each call
    results,         \* what each call returned or raised
    json_file_paths,        \* two input paths
    output_pdf_filenames,   \* the output paths of main.py line 63 for them
    chapter_perf_data,      \* a performance map, as its items in dictionary order
    highlight_lines,  \* the entries format_data_for_llm lists for it, in order
    section_rows     \* the rows appended to all_questions_list for it

sectionVars == <<section_data, section_rows>>

runVars == <<json_file, raw_data, log, run_result>>

feedbackVars == <<model, processed_data_str, service, ai_feedback>>

reportVars == <<data_for_llm_context, report>>

batchVars == <<json_files_to_process, next_file, successful_reports, failed_reports,
               files_attempted>>

pairVars == <<records, local_pc, all_questions_list, results>>

nameVars == <<json_file_paths, output_pdf_filenames>>

highlightVars == <<chapter_perf_data, highlight_lines>>

laterVars == <<batchVars, pairVars, nameVars, highlightVars>>

vars == <<pc, section_title, subject_name, q_data, flat_q, data, processed_data, exc,
          sectionVars, runVars, feedbackVars, reportVars, laterVars>>

(***************************************************************************)
(* Characters and Python's str methods                                     *)
(***************************************************************************)
UpperLetters == <<"A","B","C","D","E","F","G","H","I","J","K","L","M",
                  "N","O","P","Q","R","S","T","U","V","W","X","Y","Z">>
LowerLetters == <<"a","b","c","d","e","f","g","h","i","j","k","l","m",
                  "n","o","p","q","r","s","t","u","v","w","x","y","z">>
Digits == {"0","1","2","3","4","5","6","7","8","9"}

Range(s) == {s[i] : i \in DOMAIN s}

UpperSet == Range(UpperLetters)
LowerSet == Range(LowerLetters)
WordChars == UpperSet \cup LowerSet \cup Digits \cup {"_"}

IndexIn(c, letters) == CHOOSE i \in DOMAIN letters : letters[i] = c

\* the lower-case and upper-case counterparts of the ASCII letters
ToLower == [c \in UpperSet |-> LowerLetters[IndexIn(c, UpperLetters)]]
ToUpper == [c \in LowerSet |-> UpperLetters[IndexIn(c, LowerLetters)]]

\* str.lower() on one character
LowerChar(c) == IF c \in UpperSet THEN ToLower[c] ELSE c

\* str.upper() on one character
UpperChar(c) == IF c \in LowerSet THEN ToUpper[c] ELSE c

\* str.lower()
Lower(s) == [i \in DOMAIN s |-> LowerChar(s[i])]

\* str.capitalize(): first character upper-cased, ALL the others lower-cased
Capitalize(s) ==
    [i \in DOMAIN s |-> IF i = 1 THEN UpperChar(s[i]) ELSE LowerChar(s[i])]

\* the class \w of the re module, on ASCII
IsWordChar(c) == c \in WordChars

\* \b between positions p and p+1 of s (p = 0: start, p = Len(s): end)
WordBoundary(s, p) ==
    LET before == p >= 1 /\ IsWordChar(s[p])
        after  == p + 1 <= Len(s) /\ IsWordChar(s[p + 1])
    IN  before # after

\* kw occurs in s at position i
OccursAt(kw, s, i) ==
    /\ i >= 1
    /\ i + Len(kw) - 1 <= Len(s)
    /\ SubSeq(s, i, i + Len(kw) - 1) = kw

\* variant of SearchWholeWord without the two \b: a keyword anywhere in s
SearchSubstring(kws, s) ==
    \E kw \in kws : \E i \in 1..Len(s) : OccursAt(kw, s, i)
\* re.search(r'\b(kw1|kw2|...)\b', s) finds a match
SearchWholeWord(kws, s) ==
    \E kw \in kws : \E i \in 1..Len(s) :
        /\ OccursAt(kw, s, i)
        /\ WordBoundary(s, i - 1)
        /\ WordBoundary(s, i + Len(kw) - 1)

(***************************************************************************)
(* String literals of data_processor.py, as character sequences            *)
(***************************************************************************)
S_physics     == <<"p","h","y","s","i","c","s">>
S_chemistry   == <<"c","h","e","m","i","s","t","r","y">>
S_math        == <<"m","a","t","h">>
S_maths       == <<"m","a","t","h","s">>
S_mathematics == <<"m","a","t","h","e","m","a","t","i","c","s">>
S_UnknownSection == <<"U","n","k","n","o","w","n"," ","S","e","c","t","i","o","n">>
S_UnknownDifficulty ==
    <<"U","n","k","n","o","w","n"," ","D","i","f","f","i","c","u","l","t","y">>
S_answered    == <<"a","n","s","w","e","r","e","d">>
S_notAnswered == <<"n","o","t","A","n","s","w","e","r","e","d">>

(***************************************************************************)
(* JSON values whose type the code tests are tagged with their kind.       *)
(***************************************************************************)
Str(chars) == [kind |-> "str", chars |-> chars]
Null == [kind |-> "null"]
Num(n) == [kind |-> "num", n |-> n]
List(items) == [kind |-> "list", items |-> items]
Obj(fields) == [kind |-> "obj", fields |-> fields]
EmptyObj == <<>>

\* Python truthiness of a tagged value
Truthy(v) ==
    CASE v.kind = "str"  -> Len(v.chars) > 0
      [] v.kind = "num"  -> v.n # 0
      [] v.kind = "list" -> Len(v.items) > 0
      [] v.kind = "obj"  -> DOMAIN v.fields # {}
      [] OTHER           -> FALSE

\* dict.get(key, default) on an object whose fields have one type
Get(obj, key, default) == IF key \in DOMAIN obj THEN obj[key] ELSE default

(***************************************************************************)
(* extract_subject_from_title                                              *)
(***************************************************************************)
extract_subject_from_title(title) ==
    IF ~Truthy(title) \/ title.kind # "str" THEN "Unknown Subject"
    ELSE LET title_lower == Lower(title.chars)
         IN  IF SearchWholeWord({S_physics}, title_lower) THEN "Physics"
             ELSE IF SearchWholeWord({S_chemistry}, title_lower) THEN "Chemistry"
             ELSE IF SearchWholeWord({S_math, S_maths, S_mathematics}, title_lower)
                  THEN "Maths"
             ELSE "Other Subjects"

(***************************************************************************)
(* process_student_data, lines 67-95: one question becomes one row          *)
(***************************************************************************)
\* [x.get("title") for x in items if x.get("title")]
TruthyTitles(items) ==
    SelectSeq([i \in DOMAIN items |-> Get(items[i], "title", "")],
              LAMBDA t : t # "")

\* lines 74-81
IsMarkedCorrect(q) ==
    LET marked == Get(q, "markedOptions", Null)
        byOption == /\ Truthy(marked)
                    /\ marked.kind = "list"
                    /\ \E i \in DOMAIN marked.items :
                           Get(marked.items[i], "isCorrect", FALSE)
        byInput == Get(Get(q, "inputValue", EmptyObj), "isCorrect", FALSE)
    IN  byOption \/ byInput

\* variant of FinalStatus without the .lower() of line 83
StatusExactCase(q, is_marked_correct_by_system) ==
    IF Get(q, "status", S_notAnswered) = S_answered
    THEN IF is_marked_correct_by_system THEN "Correct" ELSE "Incorrect"
    ELSE "Unattempted"
\* lines 83-86
FinalStatus(q, is_marked_correct_by_system) ==
    LET q_status_from_json == Lower(Get(q, "status", S_notAnswered))
    IN  IF q_status_from_json = S_answered
        THEN IF is_marked_correct_by_system THEN "Correct" ELSE "Incorrect"
        ELSE "Unattempted"

\* line 72
Difficulty(question_detail) ==
    Capitalize(Get(question_detail, "level", S_UnknownDifficulty))

\* variant of PrimaryChapter that takes the last chapter
PrimaryChapterLast(chapters) ==
    IF chapters # <<>> THEN chapters[Len(chapters)] ELSE "Unknown Chapter"
\* line 70
PrimaryChapter(chapters) ==
    IF chapters # <<>> THEN chapters[1] ELSE "Unknown Chapter"

\* lines 68-95: the row appended to all_questions_list
FlattenQuestion(subject_name_for_section, q) ==
    LET question_detail == Get(q, "questionId", EmptyObj)
        chapters == TruthyTitles(Get(question_detail, "chapters", <<>>))
        primary_chapter == PrimaryChapter(chapters)
        concepts == TruthyTitles(Get(question_detail, "concepts", <<>>))
    IN  [subject |-> subject_name_for_section,
         chapter |-> primary_chapter,
         difficulty |-> Difficulty(question_detail),
         concepts |-> concepts,
         status |-> FinalStatus(q, IsMarkedCorrect(q)),
         time_taken_seconds |-> Get(q, "timeTaken", 0)]

\* lines 62-65: the subject of a section
SectionSubject(section) ==
    LET section_id_info == Get(section, "sectionId", EmptyObj)
        title == Get(section_id_info, "title", Str(S_UnknownSection))
    IN  extract_subject_from_title(title)

\* lines 67-95 for one section
RECURSIVE FlattenQuestions(_, _)
FlattenQuestions(subject, questions) ==
    IF questions = <<>> THEN <<>>
    ELSE <<FlattenQuestion(subject, Head(questions))>>
         \o FlattenQuestions(subject, Tail(questions))

\* lines 62-95: all_questions_list
RECURSIVE FlattenSections(_)
FlattenSections(sections) ==
    IF sections = <<>> THEN <<>>
    ELSE FlattenQuestions(SectionSubject(Head(sections)),
                          Get(Head(sections), "questions", <<>>))
         \o FlattenSections(Tail(sections))

(***************************************************************************)
(* The DataFrame questions_df is the sequence of its rows.  A DataFrame    *)
(* built from no rows, pd.DataFrame([]) or pd.DataFrame(), has no columns, *)
(* and selecting a column it does not have raises KeyError.                *)
(***************************************************************************)
RowColumns == {"subject", "chapter", "difficulty", "concepts", "status",
               "time_taken_seconds"}
Columns(df) == IF df = <<>> THEN {} ELSE RowColumns

\* variant of CountStatus that counts every row, whatever its status
CountAllRows(df, st) == Len(df)
\* sum(df["status"] == st)
CountStatus(df, st) == Cardinality({i \in DOMAIN df : df[i].status = st})

RECURSIVE SumTime(_)
SumTime(df) ==
    IF df = <<>> THEN 0 ELSE Head(df).time_taken_seconds + SumTime(Tail(df))

\* round(num / den, 2) in hundredths, ties to even, den > 0, num >= 0
Round2(num, den) ==
    LET q == (100 * num) \div den
        r == (100 * num) % den
    IN  IF 2 * r > den THEN q + 1
        ELSE IF 2 * r = den THEN q + (q % 2)
        ELSE q

\* round(df["time_taken_seconds"].mean(), 2), df not empty
MeanTime(df) == Round2(SumTime(df), Len(df))

\* variant of AccuracyPercent that truncates to two decimals
AccuracyTruncated(correct, total) ==
    IF total > 0 THEN (10000 * correct) \div total ELSE 0
\* round((correct / total) * 100 if total else 0, 2)
AccuracyPercent(correct, total) ==
    IF total > 0 THEN Round2(100 * correct, total) ELSE 0

\* the rows of df whose column col is key: one group of df.groupby(col)
GroupOf(df, col, key) == SelectSeq(df, LAMBDA row : row[col] = key)

\* df.groupby(col).groups
GroupKeys(df, col) == {df[i][col] : i \in DOMAIN df}

EXPECTED_QUESTIONS_PER_SUBJECT == 25
CanonicalSubjects == {"Physics", "Chemistry", "Maths"}

\* lines 126-127: group_df of a canonical subject; pd.DataFrame() when absent
SubjectGroup(df, subject) ==
    IF subject \in GroupKeys(df, "subject") THEN GroupOf(df, "subject", subject)
    ELSE <<>>

\* line 129 raises KeyError for a group_df without the column "status"
SubjectLoopRaises(df) ==
    \E subject \in CanonicalSubjects :
        "status" \notin Columns(SubjectGroup(df, subject))

\* lines 123-137, when line 129 does not raise
SubjectPerformance(df) ==
    IF "subject" \in Columns(df) /\ df # <<>>
    THEN [subject \in CanonicalSubjects |->
            LET group_df == SubjectGroup(df, subject)
                total_expected == EXPECTED_QUESTIONS_PER_SUBJECT
                count_correct == CountStatus(group_df, "Correct")
            IN  [total_questions |-> total_expected,
                 correct_answers |-> count_correct,
                 accuracy_percent |-> AccuracyPercent(count_correct, total_expected),
                 average_time_seconds |->
                     IF group_df # <<>> THEN MeanTime(group_df) ELSE 0]]
    ELSE <<>>

\* variant of ObservedSummary that counts every attempted row as correct
ObservedSummaryOfAttempted(group_df) ==
    LET attempted == Len(group_df) - CountStatus(group_df, "Unattempted")
    IN  [total_questions |-> Len(group_df),
         correct_answers |-> attempted,
         accuracy_percent |-> AccuracyPercent(attempted, Len(group_df)),
         average_time_seconds |-> IF Len(group_df) > 0 THEN MeanTime(group_df) ELSE 0]
\* lines 143-150 and 156-163: the summary of one observed group
ObservedSummary(group_df) ==
    [total_questions |-> Len(group_df),
     correct_answers |-> CountStatus(group_df, "Correct"),
     accuracy_percent |-> AccuracyPercent(CountStatus(group_df, "Correct"),
                                          Len(group_df)),
     average_time_seconds |-> IF Len(group_df) > 0 THEN MeanTime(group_df) ELSE 0]

\* lines 139-150
ChapterPerformance(df) ==
    IF "chapter" \in Columns(df) /\ df # <<>>
    THEN [chapter_name \in GroupKeys(df, "chapter") \ {"Unknown Chapter"} |->
            ObservedSummary(GroupOf(df, "chapter", chapter_name))]
    ELSE <<>>

\* lines 152-163
DifficultyPerformance(df) ==
    IF "difficulty" \in Columns(df) /\ df # <<>>
    THEN [diff_level \in GroupKeys(df, "difficulty") \ {S_UnknownDifficulty} |->
            ObservedSummary(GroupOf(df, "difficulty", diff_level))]
    ELSE <<>>

\* lines 165-184: every concept of every row
ConceptKeys(df) == UNION {Range(df[i].concepts) : i \in DOMAIN df}

\* variant of ConceptRows that counts a row for its first concept only
ConceptRowsFirstOnly(df, concept) ==
    SelectSeq(df, LAMBDA row : row.concepts # <<>> /\ row.concepts[1] = concept)
\* the rows counted for a concept, once per occurrence in the row's list
RECURSIVE ConceptRows(_, _)
ConceptRows(df, concept) ==
    IF df = <<>> THEN <<>>
    ELSE LET row == Head(df)
             n == Cardinality({i \in DOMAIN row.concepts : row.concepts[i] = concept})
         IN  [i \in 1..n |-> row] \o ConceptRows(Tail(df), concept)

ConceptPerformance(df) ==
    IF "concepts" \in Columns(df) /\ df # <<>>
    THEN [concept \in ConceptKeys(df) |-> ObservedSummary(ConceptRows(df, concept))]
    ELSE <<>>

\* lines 186-193
TimeAccuracySummary(df) ==
    IF df # <<>>
    THEN LET correct == GroupOf(df, "status", "Correct")
             incorrect == GroupOf(df, "status", "Incorrect")
         IN  [avg_time_per_correct_q_seconds |->
                  IF correct # <<>> THEN MeanTime(correct) ELSE 0,
              avg_time_per_incorrect_q_seconds |->
                  IF incorrect # <<>> THEN MeanTime(incorrect) ELSE 0]
    ELSE <<>>

(***************************************************************************)
(* process_student_data                                                    *)
(***************************************************************************)
S_NA == <<"N","/","A">>

\* line 48: the f-string with the value it formats
TestName(test_info) ==
    [text |-> "QPT Analysis (Total Marks: {})",
     total_marks |-> Get(test_info, "totalMarks", Str(S_NA))]

\* variant of StudentName that never reads the field
StudentNameIgnored(fields) == "Valued Student"
\* line 49
StudentName(fields) == Get(fields, "student_name", "Valued Student")

\* line 52
SectionsUnusable(fields) ==
    "sections" \notin DOMAIN fields \/ fields["sections"].kind # "list"

\* lines 54-60
MinimalResult(fields) ==
    [kind |-> "result",
     student_name |-> StudentName(fields),
     test_name |-> TestName(Get(fields, "test", EmptyObj)),
     overall_summary |-> <<>>,
     subject_performance |-> <<>>,
     chapter_performance |-> <<>>,
     difficulty_performance |-> <<>>,
     concept_performance |-> <<>>,
     time_accuracy_summary |-> <<>>,
     raw_questions_df |-> <<>>]

\* variant of OfficialTotalQuestions that never reads the header
OfficialTotalIgnoringHeader(test_info, total_questions_in_df) == total_questions_in_df
\* line 106
OfficialTotalQuestions(test_info, total_questions_in_df) ==
    Get(test_info, "totalQuestions", total_questions_in_df)

\* lines 99-119, when line 100 does not raise
OverallSummary(fields, df) ==
    LET test_info == Get(fields, "test", EmptyObj)
        total_questions_in_df == Len(df)
        total_correct_in_df == CountStatus(df, "Correct")
        total_incorrect_in_df == CountStatus(df, "Incorrect")
    IN  [score |-> Get(fields, "totalMarkScored", Null),
         accuracy_percent |-> AccuracyPercent(total_correct_in_df, total_questions_in_df),
         correct_answers |-> total_correct_in_df,
         incorrect_answers |-> total_incorrect_in_df,
         unattempted_answers |-> CountStatus(df, "Unattempted"),
         attempted_answers |-> total_correct_in_df + total_incorrect_in_df,
         total_questions_in_test |-> total_questions_in_df,
         official_total_questions_header |->
             OfficialTotalQuestions(test_info, total_questions_in_df),
         total_marks_in_test |-> Get(test_info, "totalMarks", Null),
         time_taken_seconds |-> Get(fields, "totalTimeTaken", Null)]

\* lines 195-205
FullResult(fields, df) ==
    [kind |-> "result",
     student_name |-> StudentName(fields),
     test_name |-> TestName(Get(fields, "test", EmptyObj)),
     overall_summary |-> OverallSummary(fields, df),
     subject_performance |-> SubjectPerformance(df),
     chapter_performance |-> ChapterPerformance(df),
     difficulty_performance |-> DifficultyPerformance(df),
     concept_performance |-> ConceptPerformance(df),
     time_accuracy_summary |-> TimeAccuracySummary(df),
     raw_questions_df |-> df]

\* the value is a dictionary built at lines 54-60 or 195-205
IsResult(v) == v.kind = "result"

Returned(value) == [raised |-> "none", value |-> value]
Raised(name) == [raised |-> name, value |-> Null]

\* the rows of questions_df (line 97) for a record with a list of sections
QuestionsDf(fields) == FlattenSections(fields["sections"].items)

\* lines 97-205: from the flattened rows to the result or the exception
SummarizeQuestions(fields, questions_df) ==
    IF "status" \notin Columns(questions_df)
    THEN Raised("KeyError")                                        \* line 100
    ELSE IF SubjectLoopRaises(questions_df)
    THEN Raised("KeyError")                                        \* line 129
    ELSE Returned(FullResult(fields, questions_df))

\* the whole call: what it returns, or the exception it raises
process_student_data(d) ==
    IF ~Truthy(d) THEN Returned(Null)                              \* lines 43-45
    ELSE IF d.kind # "obj" THEN Raised("AttributeError")           \* line 47: data.get
    ELSE IF SectionsUnusable(d.fields)
         THEN Returned(MinimalResult(d.fields))                    \* lines 52-60
    ELSE SummarizeQuestions(d.fields, QuestionsDf(d.fields))

(***************************************************************************)
(* Inputs                                                                  *)
(***************************************************************************)
\* strings of the inputs
T_Physics     == <<"P","h","y","s","i","c","s">>
T_PHYSICS     == <<"P","H","Y","S","I","C","S">>
T_chemistry   == <<"c","h","e","m","i","s","t","r","y">>
T_Math        == <<"M","a","t","h">>
T_maths       == <<"m","a","t","h","s">>
T_MATHS       == <<"M","A","T","H","S">>
T_Mathematics == <<"M","a","t","h","e","m","a","t","i","c","s">>
T_astro       == <<"a","s","t","r","o">>
T_Section     == <<"S","e","c","t","i","o","n">>
T_2           == <<"2">>
T_s           == <<"s">>
T_PhysicsTest == <<"P","h","y","s","i","c","s"," ","T","e","s","t">>
L_easy        == <<"e","a","s","y">>
L_HARD        == <<"H","A","R","D">>
L_mEd         == <<"m","E","d">>
S_Answered    == <<"A","n","s","w","e","r","e","d">>

\* an optional field: absent, or present with one of the values
Opt(key, values) == {EmptyObj} \cup {key :> v : v \in values}

\* section titles are two words joined by a separator
TitleWords == {<<>>, T_Physics, T_PHYSICS, T_chemistry, T_Math, T_maths,
               T_Mathematics, T_astro, T_Section, T_2, T_s}
TitleSeparators == {<<>>, <<" ">>, <<"_">>, <<"-">>}
Titles ==
    {Str(a \o sep \o b) : a \in TitleWords, sep \in TitleSeparators, b \in TitleWords}
    \cup {Null, Num(5)}

\* raw questions: every combination of the optional fields of a QuestionAttempt
ChapterLists == {<<>>,
                 <<[title |-> "Kinematics"]>>,
                 <<[title |-> "Optics"], [title |-> "Kinematics"]>>,
                 <<EmptyObj, [title |-> "Optics"]>>,
                 <<[title |-> ""], [title |-> "Kinematics"]>>}
ConceptLists == {<<[title |-> "vectors"]>>,
                 <<[title |-> "vectors"], [title |-> "energy"]>>,
                 <<EmptyObj, [title |-> "energy"]>>}
Levels == {L_easy, L_HARD, L_mEd}
QuestionDetails ==
    {c @@ k @@ l : c \in Opt("chapters", ChapterLists),
                   k \in Opt("concepts", ConceptLists),
                   l \in Opt("level", Levels)}
MarkedOptions == {List(<<>>),
                  List(<<[isCorrect |-> FALSE]>>),
                  List(<<[isCorrect |-> FALSE], [isCorrect |-> TRUE]>>),
                  List(<<EmptyObj>>),
                  Num(1)}
InputValues == {EmptyObj, [isCorrect |-> TRUE], [isCorrect |-> FALSE]}
Statuses == {S_answered, S_Answered, S_notAnswered}
Questions ==
    {d @@ m @@ v @@ st @@ tt : d \in Opt("questionId", QuestionDetails),
                               m \in Opt("markedOptions", MarkedOptions),
                               v \in Opt("inputValue", InputValues),
                               st \in Opt("status", Statuses),
                               tt \in Opt("timeTaken", {30})}

\* records: a header and, optionally, sections
Q_correct ==
    [questionId |-> [chapters |-> <<[title |-> "Kinematics"]>>,
                     concepts |-> <<[title |-> "vectors"], [title |-> "energy"]>>,
                     level |-> L_easy],
     status |-> S_answered,
     markedOptions |-> List(<<[isCorrect |-> TRUE]>>),
     timeTaken |-> 30]
Q_incorrect ==
    [questionId |-> [chapters |-> <<[title |-> ""], [title |-> "Optics"],
                                    [title |-> "Kinematics"]>>,
                     concepts |-> <<EmptyObj, [title |-> "vectors"]>>,
                     level |-> L_HARD],
     status |-> S_Answered,
     markedOptions |-> List(<<[isCorrect |-> FALSE]>>),
     timeTaken |-> 50]
Q_bare == EmptyObj
QuestionLists == {<<>>, <<Q_correct>>, <<Q_bare, Q_incorrect>>}
SectionTitles == {Str(T_PhysicsTest), Str(T_chemistry), Str(T_MATHS)}
SampleSections ==
    {sid @@ qs : sid \in Opt("sectionId", {[title |-> tt] : tt \in SectionTitles}),
                 qs \in Opt("questions", QuestionLists)}

MaxSections == 3

SectionLists == UNION {[1..n -> SampleSections] : n \in 0..MaxSections}
Headers == {EmptyObj,
            [test |-> EmptyObj],
            [student_name |-> "A", totalMarkScored |-> Num(120),
             test |-> [totalMarks |-> Num(300), totalQuestions |-> 75]]}
Records ==
    {Null}
    \cup {Obj(h) : h \in Headers}
    \cup {Obj(h @@ ("sections" :> v)) : h \in Headers, v \in {Null, Str(T_s)}}
    \cup {Obj(h @@ ("sections" :> List(ss))) : h \in Headers, ss \in SectionLists}

\* sections for the loop of line 62: any title, or none, and some questions
SectionIds == {EmptyObj} \cup {[title |-> t] : t \in Titles}
TitledSections ==
    {sid @@ qs : sid \in Opt("sectionId", SectionIds),
                 qs \in Opt("questions", QuestionLists \ {<<>>})}

(***************************************************************************)
(* The calls.  Each specification is one call on every input of its set.   *)
(***************************************************************************)
\* the variables of a call that is not the one of the specification
IdleSection == section_data = EmptyObj /\ section_rows = <<>>
IdleRun == json_file = Null /\ raw_data = Null /\ log = <<>> /\ run_result = "running"
IdleFeedback ==
    model = TRUE /\ processed_data_str = <<>> /\ service = Null /\ ai_feedback = <<>>
IdleReport == data_for_llm_context = Null /\ report = Null
IdleBatch ==
    /\ json_files_to_process = <<>> /\ next_file = 1 /\ files_attempted = <<>>
    /\ successful_reports = 0 /\ failed_reports = 0
IdlePair ==
    /\ records = <<>> /\ local_pc = <<>> /\ all_questions_list = <<>> /\ results = <<>>
IdleNames == json_file_paths = <<>> /\ output_pdf_filenames = <<>>
IdleHighlights == chapter_perf_data = <<>> /\ highlight_lines = <<>>
IdleLater == IdleBatch /\ IdlePair /\ IdleNames /\ IdleHighlights

\* extract_subject_from_title(section_title)
InitSubject ==
    /\ pc = "extract"
    /\ section_title \in Titles
    /\ subject_name = ""
    /\ q_data = EmptyObj /\ flat_q = Null
    /\ data = Null /\ processed_data = Null /\ exc = "none"
    /\ IdleSection
    /\ IdleRun
    /\ IdleFeedback
    /\ IdleReport
    /\ IdleLater

ExtractSubject ==
    /\ pc = "extract"
    /\ subject_name' = extract_subject_from_title(section_title)
    /\ pc' = "extracted"
    /\ UNCHANGED <<section_title, q_data, flat_q, data, processed_data, exc, sectionVars,
                   runVars, feedbackVars, reportVars, laterVars>>

NextSubject == ExtractSubject
SpecSubject == InitSubject /\ [][NextSubject]_vars

\* one iteration of the loop of line 67 on q_data
InitFlatten ==
    /\ pc = "flatten"
    /\ section_title = Null
    /\ subject_name \in {"Physics", "Other Subjects"}
    /\ q_data \in Questions
    /\ flat_q = Null
    /\ data = Null /\ processed_data = Null /\ exc = "none"
    /\ IdleSection
    /\ IdleRun
    /\ IdleFeedback
    /\ IdleReport
    /\ IdleLater

FlattenOne ==
    /\ pc = "flatten"
    /\ flat_q' = FlattenQuestion(subject_name, q_data)
    /\ pc' = "flattened"
    /\ UNCHANGED <<section_title, subject_name, q_data, data, processed_data, exc,
                   sectionVars, runVars, feedbackVars, reportVars, laterVars>>

NextFlatten == FlattenOne
SpecFlatten == InitFlatten /\ [][NextFlatten]_vars

\* one iteration of the loop of line 62 on section_data
InitSection ==
    /\ pc = "section"
    /\ section_title = Null /\ subject_name = ""
    /\ q_data = EmptyObj /\ flat_q = Null
    /\ data = Null /\ processed_data = Null /\ exc = "none"
    /\ section_data \in TitledSections
    /\ section_rows = <<>>
    /\ IdleRun
    /\ IdleFeedback
    /\ IdleReport
    /\ IdleLater

FlattenSection ==
    /\ pc = "section"
    /\ section_rows' = FlattenQuestions(SectionSubject(section_data),
                                        Get(section_data, "questions", <<>>))
    /\ pc' = "section_done"
    /\ UNCHANGED <<section_title, subject_name, q_data, flat_q, data, processed_data,
                   exc, section_data, runVars, feedbackVars, reportVars, laterVars>>

NextSection == FlattenSection
SpecSection == InitSection /\ [][NextSection]_vars

\* process_student_data(data)
Init ==
    /\ pc = "process"
    /\ section_title = Null /\ subject_name = ""
    /\ q_data = EmptyObj /\ flat_q = Null
    /\ data \in Records
    /\ processed_data = Null
    /\ exc = "none"
    /\ IdleSection
    /\ IdleRun
    /\ IdleFeedback
    /\ IdleReport
    /\ IdleLater

ProcessStudentData ==
    /\ pc = "process"
    /\ LET outcome == process_student_data(data)
       IN  /\ processed_data' = outcome.value
           /\ exc' = outcome.raised
    /\ pc' = "processed"
    /\ UNCHANGED <<section_title, subject_name, q_data, flat_q, data, sectionVars, runVars,
                   feedbackVars, reportVars, laterVars>>

Next == ProcessStudentData
Spec == Init /\ [][Next]_vars

(***************************************************************************)
(* load_data and the first steps of run_full_analysis_and_report_generation *)
(***************************************************************************)
\* lines 9-10: open and json.load, the parsed value or the exception raised
ReadJson(file) ==
    CASE file.kind = "missing"    -> Raised("FileNotFoundError")
      [] file.kind = "malformed"  -> Raised("JSONDecodeError")
      [] file.kind = "unreadable" -> Raised(file.error)
      [] OTHER                    -> Returned(file.value)

\* what load_data returns and the line it prints
Loaded(value, printed) == [raised |-> "none", value |-> value, printed |-> printed]

\* variant of ResolveShape that returns the last element of a list
ResolveShapeLast(parsed) ==
    IF parsed.kind = "list" /\ Len(parsed.items) > 0
    THEN Loaded(parsed.items[Len(parsed.items)], "Successfully loaded (first element)")
    ELSE IF parsed.kind = "obj"
    THEN Loaded(parsed, "Successfully loaded (as dictionary)")
    ELSE Loaded(Null, "Warning: not in the expected format, or is empty")
\* lines 11-19
ResolveShape(parsed) ==
    IF parsed.kind = "list" /\ Len(parsed.items) > 0
    THEN Loaded(parsed.items[1], "Successfully loaded (first element)")
    ELSE IF parsed.kind = "obj"
    THEN Loaded(parsed, "Successfully loaded (as dictionary)")
    ELSE Loaded(Null, "Warning: not in the expected format, or is empty")

\* variant of load_data without the handler of lines 26-28
load_data_two_handlers(file) ==
    LET read == ReadJson(file)
    IN  CASE read.raised = "none"              -> ResolveShape(read.value)
          [] read.raised = "FileNotFoundError" -> Loaded(Null, "Error: File not found")
          [] read.raised = "JSONDecodeError"   -> Loaded(Null, "Error: Could not decode JSON")
          [] OTHER -> [raised |-> read.raised, value |-> Null, printed |-> ""]
\* lines 7-28
load_data(file) ==
    LET read == ReadJson(file)
    IN  CASE read.raised = "none"              -> ResolveShape(read.value)
          [] read.raised = "FileNotFoundError" -> Loaded(Null, "Error: File not found")
          [] read.raised = "JSONDecodeError"   -> Loaded(Null, "Error: Could not decode JSON")
          [] OTHER -> Loaded(Null, "An unexpected error occurred while loading")

\* values a JSON file can hold below its top level
RunRecords ==
    {Obj(EmptyObj),
     Obj([student_name |-> "A"]),
     Obj([sections |-> List(<<>>)]),
     Obj([sections |-> List(<<[sectionId |-> [title |-> Str(T_PhysicsTest)],
                              questions |-> <<Q_correct>>],
                             [sectionId |-> [title |-> Str(T_chemistry)],
                              questions |-> <<Q_correct>>],
                             [sectionId |-> [title |-> Str(T_MATHS)],
                              questions |-> <<Q_bare, Q_incorrect>>]>>)])}
JsonItems ==
    {Null, Num(0), Num(5), Str(<<>>), Str(T_s), List(<<>>), List(<<Num(5)>>)}
    \cup RunRecords
MaxItems == 2
JsonValues ==
    JsonItems \cup {List(items) : items \in UNION {[1..n -> JsonItems] : n \in 1..MaxItems}}
JsonFiles ==
    {[kind |-> "missing"], [kind |-> "malformed"]}
    \cup {[kind |-> "unreadable", error |-> e] :
              e \in {"PermissionError", "UnicodeDecodeError", "IsADirectoryError"}}
    \cup {[kind |-> "json", value |-> v] : v \in JsonValues}

\* run_full_analysis_and_report_generation(json_file_path), main.py lines 16-33
InitRun ==
    /\ pc = "run_load"
    /\ section_title = Null /\ subject_name = ""
    /\ q_data = EmptyObj /\ flat_q = Null
    /\ data = Null /\ processed_data = Null /\ exc = "none"
    /\ IdleSection
    /\ json_file \in JsonFiles
    /\ raw_data = Null
    /\ log = <<>>
    /\ run_result = "running"
    /\ model \in BOOLEAN
    /\ processed_data_str = <<>> /\ service = Null /\ ai_feedback = <<>>
    /\ IdleReport
    /\ IdleLater

\* variant of LoadFailed that tests for None only
LoadFailedOnlyNone(raw) == raw = Null
\* main.py line 20: not raw_data
LoadFailed(raw) == ~Truthy(raw)

\* main.py lines 19-22
RunLoad ==
    /\ pc = "run_load"
    /\ LET outcome == load_data(json_file)
       IN  IF outcome.raised # "none"
           THEN /\ exc' = outcome.raised
                /\ run_result' = "raised"
                /\ pc' = "run_done"
                /\ log' = log \o <<"load_data">>
                /\ UNCHANGED raw_data
           ELSE /\ raw_data' = outcome.value
                /\ UNCHANGED exc
                /\ IF LoadFailed(outcome.value)
                   THEN /\ log' = log \o <<"load_data", outcome.printed,
                                            "Failed to load data. Aborting for this file.">>
                        /\ run_result' = "False"
                        /\ pc' = "run_done"
                   ELSE /\ log' = log \o <<"load_data", outcome.printed>>
                        /\ UNCHANGED run_result
                        /\ pc' = "run_process"
    /\ UNCHANGED <<section_title, subject_name, q_data, flat_q, data, processed_data,
                   sectionVars, json_file, feedbackVars, reportVars, laterVars>>

\* main.py lines 25-33
RunProcess ==
    /\ pc = "run_process"
    /\ data' = raw_data
    /\ LET outcome == process_student_data(raw_data)
       IN  /\ processed_data' = outcome.value
           /\ exc' = outcome.raised
           /\ IF outcome.raised # "none"
              THEN /\ log' = log \o <<"process_student_data">>
                   /\ run_result' = "raised"
                   /\ pc' = "run_done"
              ELSE IF ~IsResult(outcome.value)
              THEN /\ log' = log \o <<"process_student_data",
                                       "Failed to process data. Aborting for this file.">>
                   /\ run_result' = "False"
                   /\ pc' = "run_done"
              ELSE /\ log' = log \o <<"process_student_data",
                                       "Data processed successfully">>
                   /\ UNCHANGED run_result
                   /\ pc' = "run_feedback"
    /\ UNCHANGED <<section_title, subject_name, q_data, flat_q, sectionVars, json_file,
                   raw_data, feedbackVars, reportVars, laterVars>>

(***************************************************************************)
(* generate_feedback (llm_handler.py)                                      *)
(***************************************************************************)
\* str.startswith(prefix)
StartsWith(text, prefix) ==
    Len(text) >= Len(prefix) /\ SubSeq(text, 1, Len(prefix)) = prefix

\* sub in text
Contains(sub, text) == \E i \in 1..Len(text) : OccursAt(sub, text, i)

\* not text.strip()
IsBlank(text) == \A i \in DOMAIN text : text[i] \in {" ", "\n", "\t"}

\* text[:n]
Truncate(text, n) == IF Len(text) <= n THEN text ELSE SubSeq(text, 1, n)

S_ErrorPrefix ==
    <<"E","r","r","o","r",":">>
S_NoData ==
    <<"N","o"," ","d","a","t","a"," ","a","v","a","i","l","a","b","l","e",
      " ","t","o"," ","f","o","r","m","a","t"," ","f","o","r"," ","L","L",
      "M",".">>
S_ContextHead ==
    <<"S","t","u","d","e","n","t"," ","P","e","r","f","o","r","m","a","n",
      "c","e"," ","A","n","a","l","y","s","i","s",":">>
S_API_KEY_INVALID ==
    <<"A","P","I","_","K","E","Y","_","I","N","V","A","L","I","D">>
S_PERMISSION_DENIED ==
    <<"P","E","R","M","I","S","S","I","O","N","_","D","E","N","I","E","D">>
S_deadline_exceeded ==
    <<"d","e","a","d","l","i","n","e"," ","e","x","c","e","e","d","e","d">>
S_timeout ==
    <<"t","i","m","e","o","u","t">>

\* the strings returned at lines 163, 166, 258, 262, 267, 275, 277 and 278
\* (the two back-quotes of line 275 are written as quotes)
MSG_Unavailable ==
    <<"E","r","r","o","r",":"," ","A","I"," ","F","e","e","d","b","a","c",
      "k"," ","g","e","n","e","r","a","t","i","o","n"," ","s","e","r","v",
      "i","c","e"," ","i","s"," ","u","n","a","v","a","i","l","a","b","l",
      "e"," ","d","u","e"," ","t","o"," ","c","o","n","f","i","g","u","r",
      "a","t","i","o","n"," ","i","s","s","u","e","s",".">>
MSG_NoProcessedData ==
    <<"E","r","r","o","r",":"," ","N","o"," ","p","r","o","c","e","s","s",
      "e","d"," ","d","a","t","a"," ","w","a","s"," ","p","r","o","v","i",
      "d","e","d"," ","t","o"," ","g","e","n","e","r","a","t","e"," ","f",
      "e","e","d","b","a","c","k",".">>
MSG_Blocked ==
    <<"E","r","r","o","r",":"," ","T","h","e"," ","A","I"," ","c","o","u",
      "l","d"," ","n","o","t"," ","g","e","n","e","r","a","t","e"," ","f",
      "e","e","d","b","a","c","k"," ","b","e","c","a","u","s","e"," ","t",
      "h","e"," ","r","e","q","u","e","s","t"," ","w","a","s"," ","b","l",
      "o","c","k","e","d"," ","b","y"," ","s","a","f","e","t","y"," ","f",
      "i","l","t","e","r","s","."," ","R","e","a","s","o","n",":"," ">>
MSG_NoContent ==
    <<"E","r","r","o","r",":"," ","T","h","e"," ","A","I"," ","d","i","d",
      " ","n","o","t"," ","g","e","n","e","r","a","t","e"," ","a","n","y",
      " ","f","e","e","d","b","a","c","k"," ","c","o","n","t","e","n","t",
      ","," ","o","r"," ","t","h","e"," ","r","e","s","p","o","n","s","e",
      " ","w","a","s"," ","e","m","p","t","y",".">>
MSG_EmptyString ==
    <<"E","r","r","o","r",":"," ","T","h","e"," ","A","I"," ","g","e","n",
      "e","r","a","t","e","d"," ","a","n"," ","e","m","p","t","y"," ","f",
      "e","e","d","b","a","c","k"," ","s","t","r","i","n","g",".">>
MSG_KeyInvalid ==
    <<"E","r","r","o","r"," ","g","e","n","e","r","a","t","i","n","g"," ",
      "f","e","e","d","b","a","c","k",":"," ","T","h","e"," ","G","o","o",
      "g","l","e"," ","G","e","m","i","n","i"," ","A","P","I"," ","K","e",
      "y"," ","i","s"," ","i","n","v","a","l","i","d"," ","o","r"," ","p",
      "e","r","m","i","s","s","i","o","n","s"," ","a","r","e"," ","d","e",
      "n","i","e","d","."," ","P","l","e","a","s","e"," ","c","h","e","c",
      "k"," ","'","c","o","n","f","i","g",".","p","y","'",".">>
MSG_TimedOut ==
    <<"E","r","r","o","r"," ","g","e","n","e","r","a","t","i","n","g"," ",
      "f","e","e","d","b","a","c","k",":"," ","T","h","e"," ","r","e","q",
      "u","e","s","t"," ","t","o"," ","t","h","e"," ","A","I"," ","s","e",
      "r","v","i","c","e"," ","t","i","m","e","d"," ","o","u","t","."," ",
      "P","l","e","a","s","e"," ","t","r","y"," ","a","g","a","i","n"," ",
      "l","a","t","e","r",".">>
MSG_Unexpected ==
    <<"E","r","r","o","r"," ","g","e","n","e","r","a","t","i","n","g"," ",
      "f","e","e","d","b","a","c","k",":"," ","A","n"," ","u","n","e","x",
      "p","e","c","t","e","d"," ","e","r","r","o","r"," ","o","c","c","u",
      "r","r","e","d"," ","w","i","t","h"," ","t","h","e"," ","A","I"," ",
      "s","e","r","v","i","c","e","."," ","D","e","t","a","i","l","s",":",
      " ">>

\* lines 271-278: the handler of `except Exception as e`, on str(e)
FeedbackForException(message) ==
    IF Contains(S_API_KEY_INVALID, message) \/ Contains(S_PERMISSION_DENIED, message)
    THEN MSG_KeyInvalid
    ELSE IF Contains(S_deadline_exceeded, Lower(message))
            \/ Contains(S_timeout, Lower(message))
    THEN MSG_TimedOut
    ELSE MSG_Unexpected \o Truncate(message, 200)

\* lines 161-278; the_model is llm_handler.model, response what
\* model.generate_content returns or raises
generate_feedback(the_model, context_str, response) ==
    IF ~the_model THEN MSG_Unavailable                              \* lines 161-163
    ELSE IF context_str = <<>> \/ context_str = S_NoData
    THEN MSG_NoProcessedData                                        \* lines 165-166
    ELSE CASE response.kind = "exception" -> FeedbackForException(response.message)
           [] response.kind = "blocked"   -> MSG_Blocked \o response.reason
           [] response.kind \in {"no_candidates", "no_parts"} -> MSG_NoContent
           [] OTHER -> IF IsBlank(response.text) THEN MSG_EmptyString
                       ELSE response.text

\* messages of the exceptions the service call raises, block reasons and
\* generated texts
E_KeyInvalid ==
    <<"4","0","0"," ","A","P","I"," ","k","e","y"," ","n","o","t"," ","v",
      "a","l","i","d","."," ","[","r","e","a","s","o","n",":"," ","A","P",
      "I","_","K","E","Y","_","I","N","V","A","L","I","D","]">>
E_PermissionDenied ==
    <<"4","0","3"," ","P","E","R","M","I","S","S","I","O","N","_","D","E",
      "N","I","E","D">>
E_Deadline ==
    <<"5","0","4"," ","D","e","a","d","l","i","n","e"," ","E","x","c","e",
      "e","d","e","d">>
E_Timeout ==
    <<"R","e","a","d"," ","t","i","m","e","o","u","t">>
E_Internal ==
    <<"5","0","0"," ","i","n","t","e","r","n","a","l"," ","e","r","r","o",
      "r">>
R_SAFETY ==
    <<"S","A","F","E","T","Y">>
R_OTHER ==
    <<"O","T","H","E","R">>
G_Narrative ==
    <<"#","#"," ","1","."," ","P","e","r","s","o","n","a","l","i","z","e",
      "d"," ","M","o","t","i","v","a","t","i","n","g"," ","I","n","t","r",
      "o","d","u","c","t","i","o","n">>
G_Short ==
    <<"K","e","e","p"," ","g","o","i","n","g",".">>
G_Blank ==
    <<" "," ">>

\* what the call of line 248 can do
ServiceOutcomes ==
    {[kind |-> "exception", message |-> e] :
        e \in {E_KeyInvalid, E_PermissionDenied, E_Deadline, E_Timeout, E_Internal}}
    \cup {[kind |-> "blocked", reason |-> r] : r \in {R_SAFETY, R_OTHER}}
    \cup {[kind |-> "no_candidates"], [kind |-> "no_parts"]}
    \cup {[kind |-> "text", text |-> t] : t \in {<<>>, G_Blank, G_Narrative, G_Short}}

\* generate_feedback(processed_data_str, student_name)
InitFeedback ==
    /\ pc = "feedback"
    /\ section_title = Null /\ subject_name = ""
    /\ q_data = EmptyObj /\ flat_q = Null
    /\ data = Null /\ processed_data = Null /\ exc = "none"
    /\ IdleSection
    /\ IdleRun
    /\ model \in BOOLEAN
    /\ processed_data_str \in {<<>>, S_NoData, S_ContextHead}
    /\ service \in ServiceOutcomes
    /\ ai_feedback = <<>>
    /\ IdleReport
    /\ IdleLater

GenerateFeedback ==
    /\ pc = "feedback"
    /\ ai_feedback' = generate_feedback(model, processed_data_str, service)
    /\ pc' = "feedback_done"
    /\ UNCHANGED <<section_title, subject_name, q_data, flat_q, data, processed_data, exc,
                   sectionVars, runVars, model, processed_data_str, service, reportVars, laterVars>>

NextFeedback == GenerateFeedback
SpecFeedback == InitFeedback /\ [][NextFeedback]_vars

(***************************************************************************)
(* format_data_for_llm, generate_pdf_report and the last steps of          *)
(* run_full_analysis_and_report_generation.  Dictionaries are objects of a *)
(* heap, so that a copy and an alias differ.                               *)
(***************************************************************************)
\* the reference of the caller's processed_data and the next free one
CallerRef == 1
NewRef == 2

\* variant of DictCopy that returns the dictionary itself
DictAlias(heap, ref) == [heap |-> heap, ref |-> ref]
\* dict.copy(): a new dictionary with the same items
DictCopy(heap, ref) == [heap |-> heap @@ (NewRef :> heap[ref]), ref |-> NewRef]

\* del d[key]
DictDel(heap, ref, key) ==
    [heap EXCEPT ![ref] = [k \in DOMAIN heap[ref] \ {key} |-> heap[ref][k]]]

\* llm_handler.py lines 55-152: the string returned, the dictionary formatted
\* and the caller's dictionary after the call
format_data_for_llm(the_processed_data) ==
    IF ~IsResult(the_processed_data)
    THEN [context_str |-> S_NoData, data_for_llm_context |-> Null,
          processed_data |-> the_processed_data]
    ELSE LET heap == CallerRef :> the_processed_data
             copied == DictCopy(heap, CallerRef)
             after == IF "raw_questions_df" \in DOMAIN copied.heap[copied.ref]
                      THEN DictDel(copied.heap, copied.ref, "raw_questions_df")
                      ELSE copied.heap
         IN  [context_str |-> S_ContextHead,
              data_for_llm_context |-> after[copied.ref],
              processed_data |-> after[CallerRef]]

MSG_CouldNotFormat ==
    <<"E","r","r","o","r",":"," ","C","o","u","l","d"," ","n","o","t"," ",
      "f","o","r","m","a","t"," ","d","a","t","a"," ","f","o","r"," ","A",
      "I"," ","p","r","o","c","e","s","s","i","n","g",".">>

\* main.py lines 36-47; the response of the service is chosen when it is called
RunFeedback ==
    /\ pc = "run_feedback"
    /\ LET formatted == format_data_for_llm(processed_data)
       IN  /\ processed_data' = formatted.processed_data
           /\ data_for_llm_context' = formatted.data_for_llm_context
           /\ processed_data_str' = formatted.context_str
           /\ IF formatted.context_str = S_NoData
              THEN /\ ai_feedback' = MSG_CouldNotFormat
                   /\ log' = log \o <<"format_data_for_llm", "No data to format for LLM">>
                   /\ UNCHANGED service
              ELSE \E response \in ServiceOutcomes :
                      /\ service' = response
                      /\ ai_feedback' =
                             generate_feedback(model, formatted.context_str, response)
                      /\ log' = log \o
                             <<"format_data_for_llm", "generate_feedback",
                               IF StartsWith(ai_feedback', S_ErrorPrefix)
                               THEN "AI feedback generation failed"
                               ELSE "AI feedback received successfully">>
    /\ pc' = "run_report"
    /\ UNCHANGED <<section_title, subject_name, q_data, flat_q, data, exc, sectionVars,
                   json_file, raw_data, run_result, model, report, laterVars>>

\* pdf_generator.py lines 154-156 and 275-292: the section of the report that
\* shows the feedback
generate_pdf_report(the_processed_data, ai_feedback_text) ==
    IF ~IsResult(the_processed_data) THEN Null
    ELSE [kind |-> "report",
          processed_data |-> the_processed_data,
          feedback_section |->
              IF ai_feedback_text # <<>> /\ ~StartsWith(ai_feedback_text, S_ErrorPrefix)
              THEN "narrative"
              ELSE "warning",
          feedback_text |-> ai_feedback_text]

\* main.py lines 52-68
RunReport ==
    /\ pc = "run_report"
    /\ report' = generate_pdf_report(processed_data, ai_feedback)
    /\ log' = log \o <<"generate_pdf_report">>
    /\ run_result' = "True"
    /\ pc' = "run_done"
    /\ UNCHANGED <<section_title, subject_name, q_data, flat_q, data, processed_data, exc,
                   sectionVars, json_file, raw_data, feedbackVars, data_for_llm_context,
                   laterVars>>

NextRun == RunLoad \/ RunProcess \/ RunFeedback \/ RunReport
SpecRun == InitRun /\ [][NextRun]_vars

(***************************************************************************)
(* The batch loop of main.py                                               *)
(***************************************************************************)
\* main.py lines 16-68 as one call: True, False, or the exception that leaves
\* it (no step of the function is inside a try)
run_full_analysis_and_report_generation(file) ==
    LET loaded == load_data(file)
    IN  IF loaded.raised # "none" THEN Raised(loaded.raised)
        ELSE IF LoadFailed(loaded.value) THEN Returned(FALSE)
        ELSE LET processed == process_student_data(loaded.value)
             IN  IF processed.raised # "none" THEN Raised(processed.raised)
                 ELSE IF ~IsResult(processed.value) THEN Returned(FALSE)
                 ELSE Returned(TRUE)

\* the files of a batch
BatchFiles ==
    {[kind |-> "missing"], [kind |-> "malformed"]}
    \cup {[kind |-> "json", value |-> v] :
             v \in RunRecords \cup {List(<<Num(5)>>), List(<<Obj([student_name |-> "A"])>>)}}
MaxFiles == 3

InitBatch ==
    /\ pc = "batch_loop"
    /\ section_title = Null /\ subject_name = ""
    /\ q_data = EmptyObj /\ flat_q = Null
    /\ data = Null /\ processed_data = Null /\ exc = "none"
    /\ IdleSection /\ IdleRun /\ IdleFeedback /\ IdleReport
    /\ json_files_to_process \in UNION {[1..n -> BatchFiles] : n \in 1..MaxFiles}
    /\ next_file = 1
    /\ successful_reports = 0
    /\ failed_reports = 0
    /\ files_attempted = <<>>
    /\ IdlePair /\ IdleNames /\ IdleHighlights

\* main.py lines 107-112: one iteration; an exception leaves the loop
BatchIteration ==
    /\ pc = "batch_loop"
    /\ next_file <= Len(json_files_to_process)
    /\ LET json_file_i == json_files_to_process[next_file]
           outcome == run_full_analysis_and_report_generation(json_file_i)
       IN  /\ files_attempted' = Append(files_attempted, json_file_i)
           /\ IF outcome.raised # "none"
              THEN /\ exc' = outcome.raised
                   /\ pc' = "batch_crashed"
                   /\ UNCHANGED <<next_file, successful_reports, failed_reports>>
              ELSE /\ successful_reports' =
                          IF outcome.value THEN successful_reports + 1
                          ELSE successful_reports
                   /\ failed_reports' =
                          IF outcome.value THEN failed_reports ELSE failed_reports + 1
                   /\ next_file' = next_file + 1
                   /\ UNCHANGED <<pc, exc>>
    /\ UNCHANGED <<section_title, subject_name, q_data, flat_q, data, processed_data,
                   sectionVars, runVars, feedbackVars, reportVars, json_files_to_process,
                   pairVars, nameVars, highlightVars>>

\* main.py lines 114-117
BatchSummary ==
    /\ pc = "batch_loop"
    /\ next_file > Len(json_files_to_process)
    /\ pc' = "batch_summary"
    /\ UNCHANGED <<section_title, subject_name, q_data, flat_q, data, processed_data, exc,
                   sectionVars, runVars, feedbackVars, reportVars, laterVars>>

NextBatch == BatchIteration \/ BatchSummary
SpecBatch == InitBatch /\ [][NextBatch]_vars

(***************************************************************************)
(* Two calls of process_student_data, one per thread, interleaved at the   *)
(* boundaries of its three phases.  Every name the function assigns is a   *)
(* local of the call.                                                      *)
(***************************************************************************)
Calls2 == {1, 2}

\* variant of AppendedRows in which all calls append to one list
AppendedRowsShared(lists, p, rows) == [q \in DOMAIN lists |-> lists[q] \o rows]
\* lines 61 and 87: all_questions_list.append on the list of call p
AppendedRows(lists, p, rows) == [lists EXCEPT ![p] = lists[p] \o rows]

PairRecords ==
    {Null, Obj([student_name |-> "A"]), Obj([sections |-> List(<<>>)]),
     Obj([student_name |-> "A",
          sections |-> List(<<[sectionId |-> [title |-> Str(T_PhysicsTest)],
                               questions |-> <<Q_correct>>],
                              [sectionId |-> [title |-> Str(T_chemistry)],
                               questions |-> <<Q_correct>>],
                              [sectionId |-> [title |-> Str(T_MATHS)],
                               questions |-> <<Q_bare, Q_incorrect>>]>>)]),
     Obj([student_name |-> "B",
          sections |-> List(<<[sectionId |-> [title |-> Str(T_PhysicsTest)],
                               questions |-> <<Q_bare, Q_incorrect>>],
                              [sectionId |-> [title |-> Str(T_chemistry)],
                               questions |-> <<Q_incorrect>>],
                              [sectionId |-> [title |-> Str(T_MATHS)],
                               questions |-> <<Q_correct>>]>>)])}

InitPair ==
    /\ pc = "pair"
    /\ section_title = Null /\ subject_name = ""
    /\ q_data = EmptyObj /\ flat_q = Null
    /\ data = Null /\ processed_data = Null /\ exc = "none"
    /\ IdleSection /\ IdleRun /\ IdleFeedback /\ IdleReport
    /\ IdleBatch
    /\ records \in [Calls2 -> PairRecords]
    /\ local_pc = [p \in Calls2 |-> "start"]
    /\ all_questions_list = [p \in Calls2 |-> <<>>]
    /\ results = [p \in Calls2 |-> Null]
    /\ IdleNames /\ IdleHighlights

\* lines 43-61 of call p
EnterCall(p) ==
    /\ local_pc[p] = "start"
    /\ LET d == records[p]
       IN  IF ~Truthy(d) \/ d.kind # "obj" \/ SectionsUnusable(d.fields)
           THEN /\ results' = [results EXCEPT ![p] = process_student_data(d)]
                /\ local_pc' = [local_pc EXCEPT ![p] = "done"]
                /\ UNCHANGED all_questions_list
           ELSE /\ all_questions_list' = [all_questions_list EXCEPT ![p] = <<>>]
                /\ local_pc' = [local_pc EXCEPT ![p] = "flatten"]
                /\ UNCHANGED results
    /\ UNCHANGED records

\* lines 62-95 of call p
FlattenCall(p) ==
    /\ local_pc[p] = "flatten"
    /\ all_questions_list' =
           AppendedRows(all_questions_list, p,
                        FlattenSections(records[p].fields["sections"].items))
    /\ local_pc' = [local_pc EXCEPT ![p] = "summarize"]
    /\ UNCHANGED <<records, results>>

\* lines 97-205 of call p
SummarizeCall(p) ==
    /\ local_pc[p] = "summarize"
    /\ results' = [results EXCEPT ![p] =
                      SummarizeQuestions(records[p].fields, all_questions_list[p])]
    /\ local_pc' = [local_pc EXCEPT ![p] = "done"]
    /\ UNCHANGED <<records, all_questions_list>>

PairStep ==
    /\ pc = "pair"
    /\ \E p \in Calls2 : EnterCall(p) \/ FlattenCall(p) \/ SummarizeCall(p)
    /\ UNCHANGED <<pc, section_title, subject_name, q_data, flat_q, data, processed_data,
                   exc, sectionVars, runVars, feedbackVars, reportVars, batchVars,
                   nameVars, highlightVars>>

NextPair == PairStep
SpecPair == InitPair /\ [][NextPair]_vars

(***************************************************************************)
(* process_student_data on records with many questions in one subject      *)
(***************************************************************************)
MaxQuestions == 26

\* the question q, n times
RepeatQ(q, n) == [i \in 1..n |-> q]

\* a record with p Physics questions q, c Chemistry and one Maths question
LargeRecord(q, p, c) ==
    Obj([student_name |-> "A",
         sections |-> List(<<[sectionId |-> [title |-> Str(T_PhysicsTest)],
                              questions |-> RepeatQ(q, p)],
                             [sectionId |-> [title |-> Str(T_chemistry)],
                              questions |-> RepeatQ(Q_correct, c)],
                             [sectionId |-> [title |-> Str(T_MATHS)],
                              questions |-> <<Q_bare>>]>>)])

LargeRecords ==
    {LargeRecord(q, p, c) : q \in {Q_correct, Q_incorrect}, p \in 1..MaxQuestions,
                            c \in 1..2}

InitLarge ==
    /\ pc = "process"
    /\ section_title = Null /\ subject_name = ""
    /\ q_data = EmptyObj /\ flat_q = Null
    /\ data \in LargeRecords
    /\ processed_data = Null
    /\ exc = "none"
    /\ IdleSection
    /\ IdleRun
    /\ IdleFeedback
    /\ IdleReport
    /\ IdleLater

SpecLarge == InitLarge /\ [][Next]_vars

(***************************************************************************)
(* The output PDF name of run_full_analysis_and_report_generation          *)
(* (main.py lines 60-63).  Paths are tuples of characters.                 *)
(***************************************************************************)
AlnumChars ==
    {"a", "b", "c", "d", "e", "f", "g", "h", "i", "j", "k", "l", "m", "n",
     "o", "p", "q", "r", "s", "t", "u", "v", "w", "x", "y", "z", "A", "B",
     "C", "D", "E", "F", "G", "H", "I", "J", "K", "L", "M", "N", "O", "P",
     "Q", "R", "S", "T", "U", "V", "W", "X", "Y", "Z", "0", "1", "2", "3",
     "4", "5", "6", "7", "8", "9"}

\* c.isalnum(), on the characters of the sample paths
IsAlnum(c) == c \in AlnumChars

\* the positions of character c in text
PositionsOf(c, text) == {i \in DOMAIN text : text[i] = c}
Last(positions) == CHOOSE i \in positions : \A j \in positions : j <= i

\* os.path.basename(path): what follows the last "/"
Basename(path) ==
    IF PositionsOf("/", path) = {} THEN path
    ELSE SubSeq(path, Last(PositionsOf("/", path)) + 1, Len(path))

\* os.path.splitext(name)[0] for a name without "/": the name up to its last
\* ".", unless only "." characters precede that "."
SplitextRoot(name) ==
    LET dots == PositionsOf(".", name)
    IN  IF dots = {} THEN name
        ELSE IF \E i \in 1..(Last(dots) - 1) : name[i] # "."
             THEN SubSeq(name, 1, Last(dots) - 1)
             ELSE name

\* line 61: every character that is not alphanumeric, "_" or "-" becomes "_"
SafeBaseName(base_name) ==
    [i \in DOMAIN base_name |->
        IF IsAlnum(base_name[i]) \/ base_name[i] \in {"_", "-"} THEN base_name[i]
        ELSE "_"]

S_generated_reports ==
    <<"g","e","n","e","r","a","t","e","d","_","r","e","p","o","r","t","s">>
S_report_pdf ==
    <<"_","r","e","p","o","r","t",".","p","d","f">>

\* os.path.join(directory, name) for a non-empty directory and a name
\* without "/"
PathJoin(directory, name) == directory \o <<"/">> \o name

\* lines 60-62
OutputPdfFilename(json_file_path, output_pdf_dir) ==
    LET base_name == SplitextRoot(Basename(json_file_path))
        safe_base_name == SafeBaseName(base_name)
    IN  PathJoin(output_pdf_dir, safe_base_name \o S_report_pdf)

P_a_x ==
    <<"a","/","x",".","j","s","o","n">>
P_b_x ==
    <<"b","/","x",".","j","s","o","n">>
P_x_space_y ==
    <<"x"," ","y",".","j","s","o","n">>
P_x_under_y ==
    <<"x","_","y",".","j","s","o","n">>
P_x_dot_y ==
    <<"x",".","y",".","j","s","o","n">>
P_x ==
    <<"x",".","j","s","o","n">>
P_y ==
    <<"y","-","1",".","j","s","o","n">>
P_hidden ==
    <<".","j","s","o","n">>
P_noext ==
    <<"a","/","x">>

SamplePaths == {P_a_x, P_b_x, P_x_space_y, P_x_under_y, P_x_dot_y,
                P_x, P_y, P_hidden, P_noext}

InitNames ==
    /\ pc = "names"
    /\ section_title = Null /\ subject_name = ""
    /\ q_data = EmptyObj /\ flat_q = Null
    /\ data = Null /\ processed_data = Null /\ exc = "none"
    /\ IdleSection /\ IdleRun /\ IdleFeedback /\ IdleReport
    /\ IdleBatch /\ IdlePair
    /\ json_file_paths \in [1..2 -> SamplePaths]
    /\ output_pdf_filenames = <<>>
    /\ IdleHighlights

\* the naming step of the call on the next path of the batch
NameReport ==
    /\ pc = "names"
    /\ Len(output_pdf_filenames) < Len(json_file_paths)
    /\ output_pdf_filenames' =
           Append(output_pdf_filenames,
                  OutputPdfFilename(json_file_paths[Len(output_pdf_filenames) + 1],
                                    S_generated_reports))
    /\ UNCHANGED <<pc, section_title, subject_name, q_data, flat_q, data, processed_data,
                   exc, sectionVars, runVars, feedbackVars, reportVars, batchVars,
                   pairVars, json_file_paths, highlightVars>>

NextNames == NameReport
SpecNames == InitNames /\ [][NextNames]_vars

(***************************************************************************)
(* The chapter and concept highlights of format_data_for_llm               *)
(* (llm_handler.py lines 91-108 and 124-140; the two loops are the same).  *)
(* A grouping map is the sequence of its items in insertion order; an item *)
(* has the group's name and its accuracy_percent in hundredths.            *)
(***************************************************************************)
MaxGroups == 7
HIGHLIGHT_COUNT == 5
DECENT_ACCURACY == 6000

\* variant of SortedByAccuracy that keeps the insertion order of the map
InsertionOrder(items) == items

RECURSIVE SortedByAccuracy(_)
\* sorted(perf_data.items(), key=accuracy_percent): stable, ascending
SortedByAccuracy(items) ==
    IF items = <<>> THEN <<>>
    ELSE LET n == Len(items)
             item == items[n]
             front == SortedByAccuracy(SubSeq(items, 1, n - 1))
             keep == {i \in DOMAIN front : front[i].accuracy_percent <= item.accuracy_percent}
         IN  SubSeq(front, 1, Cardinality(keep)) \o <<item>>
                 \o SubSeq(front, Cardinality(keep) + 1, Len(front))

RECURSIVE HighlightLoop(_, _)
\* lines 97-104: the entries written to context_str
HighlightLoop(sorted_items, shown) ==
    IF sorted_items = <<>> THEN shown
    ELSE LET perf == Head(sorted_items)
             listed == IF Len(shown) < HIGHLIGHT_COUNT
                          \/ perf.accuracy_percent < DECENT_ACCURACY
                       THEN Append(shown, perf) ELSE shown
         IN  IF Len(listed) >= HIGHLIGHT_COUNT /\ perf.accuracy_percent >= DECENT_ACCURACY
             THEN listed                                           \* line 104: break
             ELSE HighlightLoop(Tail(sorted_items), listed)

\* lines 91-108
Highlights(perf_data) ==
    IF perf_data = <<>> THEN <<>>                                  \* line 92
    ELSE HighlightLoop(SortedByAccuracy(perf_data), <<>>)

SampleAccuracies == {0, 5999, 6000}
PerfMaps ==
    UNION {{[i \in 1..n |-> [name |-> i, accuracy_percent |-> f[i]]] :
                f \in [1..n -> SampleAccuracies]} : n \in 0..MaxGroups}

InitHighlights ==
    /\ pc = "highlights"
    /\ section_title = Null /\ subject_name = ""
    /\ q_data = EmptyObj /\ flat_q = Null
    /\ data = Null /\ processed_data = Null /\ exc = "none"
    /\ IdleSection /\ IdleRun /\ IdleFeedback /\ IdleReport
    /\ IdleBatch /\ IdlePair /\ IdleNames
    /\ chapter_perf_data \in PerfMaps
    /\ highlight_lines = <<>>

FormatHighlights ==
    /\ pc = "highlights"
    /\ highlight_lines' = Highlights(chapter_perf_data)
    /\ pc' = "highlighted"
    /\ UNCHANGED <<section_title, subject_name, q_data, flat_q, data, processed_data,
                   exc, sectionVars, runVars, feedbackVars, reportVars, batchVars,
                   pairVars, nameVars, chapter_perf_data>>

NextHighlights == FormatHighlights
SpecHighlights == InitHighlights /\ [][NextHighlights]_vars

(***************************************************************************)
(* Properties                                                              *)
(***************************************************************************)
\* the record handed to process_student_data has a list of sections
HasSectionList ==
    /\ Truthy(data)
    /\ "sections" \in DOMAIN data.fields
    /\ data.fields["sections"].kind = "list"

\* the sections of such a record that hold at least one question
SectionsWithQuestions ==
    IF HasSectionList
    THEN LET ss == data.fields["sections"].items
         IN  {i \in DOMAIN ss : Get(ss[i], "questions", <<>>) # <<>>}
    ELSE {}

\* the raw questions of the record, in the order of the flat table
RECURSIVE RawQuestionsOf(_)
RawQuestionsOf(sections) ==
    IF sections = <<>> THEN <<>>
    ELSE Get(Head(sections), "questions", <<>>) \o RawQuestionsOf(Tail(sections))
RawQuestions ==
    IF HasSectionList THEN RawQuestionsOf(data.fields["sections"].items) ELSE <<>>

\* the subjects of the sections that hold questions
SubjectsPresent ==
    {SectionSubject(data.fields["sections"].items[i]) : i \in SectionsWithQuestions}


Zeros(summary) ==
    /\ summary.correct_answers = 0
    /\ summary.accuracy_percent = 0
    /\ summary.average_time_seconds = 0

\* C1: for every non-empty record process_student_data returns a result and
\* raises nothing; it returns None only for an empty or absent record.
C1_NeverRaises ==
    pc = "processed" =>
        /\ exc = "none"
        /\ (processed_data = Null) <=> ~Truthy(data)

\* C2: whenever the record yields at least one flattened question, each of
\* Physics, Chemistry and Maths has total_questions = 25 in the result.
C2_SubjectTotalsAre25 ==
    (pc = "processed" /\ RawQuestions # <<>>) =>
        /\ IsResult(processed_data)
        /\ \A s \in CanonicalSubjects :
              /\ s \in DOMAIN processed_data.subject_performance
              /\ processed_data.subject_performance[s].total_questions = 25

\* C3: a canonical subject with no question in any section, in a record with
\* at least one question, is reported with zero correct answers, zero
\* accuracy and zero average time.
C3_AbsentSubjectZeros ==
    (pc = "processed" /\ RawQuestions # <<>>) =>
        \A s \in CanonicalSubjects \ SubjectsPresent :
            /\ IsResult(processed_data)
            /\ s \in DOMAIN processed_data.subject_performance
            /\ Zeros(processed_data.subject_performance[s])

\* C4: a record with zero flattened questions gives a result whose overall
\* accuracy_percent is 0, and no exception.  Stated for the records whose
\* flat table is built (sections is a list: empty, or of sections with empty
\* or missing questions); a record with no sections list gets the minimal
\* result of lines 54-60, whose overall_summary has no accuracy_percent.
C4_ZeroQuestionsZeroAccuracy ==
    (pc = "processed" /\ HasSectionList /\ RawQuestions = <<>>) =>
        /\ exc = "none"
        /\ IsResult(processed_data)
        /\ "accuracy_percent" \in DOMAIN processed_data.overall_summary
        /\ processed_data.overall_summary.accuracy_percent = 0

\* C5: a non-empty record without a list of sections gives, without failing,
\* a result with the names taken from the top-level fields (or their
\* defaults), empty grouping maps and an empty flat question table.
C5_DegenerateSections ==
    (pc = "processed" /\ Truthy(data) /\ ~HasSectionList) =>
        /\ exc = "none"
        /\ IsResult(processed_data)
        /\ processed_data.student_name =
              (IF "student_name" \in DOMAIN data.fields
               THEN data.fields["student_name"] ELSE "Valued Student")
        /\ processed_data.test_name.total_marks =
              (IF "test" \in DOMAIN data.fields
                  /\ "totalMarks" \in DOMAIN data.fields["test"]
               THEN data.fields["test"]["totalMarks"] ELSE Str(S_NA))
        /\ processed_data.subject_performance = <<>>
        /\ processed_data.chapter_performance = <<>>
        /\ processed_data.difficulty_performance = <<>>
        /\ processed_data.concept_performance = <<>>
        /\ processed_data.raw_questions_df = <<>>

\* C5 witness: a record whose sections value is not a list and that names
\* its student has been processed into a result.
C5_Witness ==
    /\ pc = "processed"
    /\ Truthy(data)
    /\ "sections" \in DOMAIN data.fields
    /\ data.fields["sections"].kind # "list"
    /\ "student_name" \in DOMAIN data.fields
    /\ IsResult(processed_data)
    /\ processed_data.student_name = "A"

\* the level of the raw question, when it has one
HasLevel(q) == "questionId" \in DOMAIN q /\ "level" \in DOMAIN q["questionId"]

\* C6 as stated: the status is Unattempted unless the source status is
\* exactly "answered"; then Correct iff a marked option or the input value
\* is flagged correct, else Incorrect.
C6_AnyFlaggedCorrect(q) ==
    \/ /\ "markedOptions" \in DOMAIN q
       /\ q["markedOptions"].kind = "list"
       /\ \E i \in DOMAIN q["markedOptions"].items :
             LET opt == q["markedOptions"].items[i]
             IN  "isCorrect" \in DOMAIN opt /\ opt["isCorrect"] = TRUE
    \/ /\ "inputValue" \in DOMAIN q
       /\ "isCorrect" \in DOMAIN q["inputValue"]
       /\ q["inputValue"]["isCorrect"] = TRUE

C6_StatusWhenAnswered(q) ==
    IF C6_AnyFlaggedCorrect(q) THEN "Correct" ELSE "Incorrect"

C6_StatusExact ==
    pc = "flattened" =>
        flat_q.status =
            (IF "status" \in DOMAIN q_data /\ q_data["status"] = S_answered
             THEN C6_StatusWhenAnswered(q_data) ELSE "Unattempted")

\* C6 amended: every flattened question has exactly one status among
\* Correct, Incorrect and Unattempted; it is Unattempted unless the source
\* status, compared without regard to letter case, is "answered"; then it
\* is Correct iff a marked option or the input value is flagged correct,
\* else Incorrect.
C6_StatusCaseInsensitive ==
    pc = "flattened" =>
        /\ flat_q.status \in {"Correct", "Incorrect", "Unattempted"}
        /\ flat_q.status =
             (IF "status" \in DOMAIN q_data
                 /\ Len(q_data["status"]) = Len(S_answered)
                 /\ \A i \in DOMAIN S_answered :
                       q_data["status"][i] \in {S_answered[i], UpperChar(S_answered[i])}
              THEN C6_StatusWhenAnswered(q_data) ELSE "Unattempted")

\* C6 witness: a question whose status is "Answered", with a correct marked
\* option, has been flattened to Correct.
C6_Witness ==
    /\ pc = "flattened"
    /\ "status" \in DOMAIN q_data
    /\ q_data["status"] = S_Answered
    /\ C6_AnyFlaggedCorrect(q_data)
    /\ "inputValue" \notin DOMAIN q_data
    /\ flat_q.status = "Correct"

\* C8: a question without a level is flattened with the difficulty
\* "Unknown Difficulty", exactly.
C8_MissingLevelSentinel ==
    (pc = "flattened" /\ ~HasLevel(q_data)) => flat_q.difficulty = S_UnknownDifficulty

\* C9: a question with a level is flattened with that level, its first
\* letter upper-cased and every other character unchanged.
C9_FirstLetterOnly ==
    (pc = "flattened" /\ HasLevel(q_data)) =>
        LET level == q_data["questionId"]["level"]
        IN  /\ Len(flat_q.difficulty) = Len(level)
            /\ flat_q.difficulty[1] = UpperChar(level[1])
            /\ \A i \in 2..Len(level) : flat_q.difficulty[i] = level[i]

\* C7: a question without a level contributes to no key of
\* difficulty_performance and a question without chapters to no key of
\* chapter_performance.
C7_NoSentinelGroups ==
    (pc = "processed" /\ IsResult(processed_data)) =>
        \A i \in DOMAIN processed_data.raw_questions_df :
            LET q == RawQuestions[i]
                row == processed_data.raw_questions_df[i]
            IN  /\ ~HasLevel(q) =>
                       row.difficulty \notin DOMAIN processed_data.difficulty_performance
                /\ ("questionId" \notin DOMAIN q
                        \/ "chapters" \notin DOMAIN q["questionId"]) =>
                       row.chapter \notin DOMAIN processed_data.chapter_performance

\* the words of s: the maximal runs of letters, digits and underscores
WordsOf(s) ==
    {SubSeq(s, i, j) : <<i, j>> \in
        {p \in (1..Len(s)) \X (1..Len(s)) :
            /\ p[1] <= p[2]
            /\ \A k \in p[1]..p[2] : s[k] \in WordChars
            /\ (p[1] = 1 \/ s[p[1] - 1] \notin WordChars)
            /\ (p[2] = Len(s) \/ s[p[2] + 1] \notin WordChars)}}

\* s without regard to letter case: every upper-case letter by its lower-case
Folded(s) == [i \in DOMAIN s |-> IF s[i] \in UpperSet THEN ToLower[s[i]] ELSE s[i]]

\* C10: a non-empty textual title is Physics when "physics" is one of its
\* words (letter case ignored), else Chemistry when "chemistry" is, else
\* Maths when "math", "maths" or "mathematics" is, else Other Subjects; a
\* keyword inside a longer word is not a word of the title.
C10_WholeWordRules ==
    (pc = "extracted" /\ section_title.kind = "str" /\ section_title.chars # <<>>) =>
        LET words == WordsOf(Folded(section_title.chars))
        IN  subject_name =
              (IF S_physics \in words THEN "Physics"
               ELSE IF S_chemistry \in words THEN "Chemistry"
               ELSE IF words \cap {S_math, S_maths, S_mathematics} # {} THEN "Maths"
               ELSE "Other Subjects")

\* C10 witness: a title with both the word chemistry and the word physics
\* has been classified as Physics.
C10_Witness ==
    /\ pc = "extracted"
    /\ section_title.kind = "str"
    /\ {S_chemistry, S_physics} \subseteq WordsOf(Folded(section_title.chars))
    /\ subject_name = "Physics"

\* the title of the section, when it has one
HasTitle(sec) == "sectionId" \in DOMAIN sec /\ "title" \in DOMAIN sec["sectionId"]

\* C11: every flattened question of a section whose sectionId has no title,
\* or whose title is not a string, has the subject "Unknown Subject".
C11_UntitledIsUnknownSubject ==
    (pc = "section_done"
        /\ (~HasTitle(section_data)
               \/ section_data["sectionId"]["title"].kind # "str")) =>
        \A i \in DOMAIN section_rows : section_rows[i].subject = "Unknown Subject"

Abs(x) == IF x < 0 THEN -x ELSE x

\* v, in hundredths, is num / den rounded to two decimals (den > 0)
IsRounded(v, num, den) == 2 * Abs(v * den - 100 * num) <= den

\* the overall_summary of the result is populated (lines 108-119)
HasOverallSummary == IsResult(processed_data) /\ processed_data.overall_summary # <<>>

\* every GroupSummary of the four grouping maps of a result
GroupSummaries(result) ==
    UNION {Range(result[m]) : m \in {"subject_performance", "chapter_performance",
                                     "difficulty_performance", "concept_performance"}}

\* accuracy_percent == round(100 * correct_answers / total_questions, 2), or 0
AccuracyMatches(accuracy_percent, correct_answers, total_questions) ==
    IF total_questions > 0
    THEN IsRounded(accuracy_percent, 100 * correct_answers, total_questions)
    ELSE accuracy_percent = 0

C12_GroupsMatch ==
    \A g \in GroupSummaries(processed_data) :
        AccuracyMatches(g.accuracy_percent, g.correct_answers, g.total_questions)

\* C12: in every result, the overall accuracy_percent (the minimal result of
\* lines 54-60 stores none) is round(100 * correct_answers /
\* total_questions_in_test, 2), and every GroupSummary of the four maps has
\* accuracy_percent = round(100 * correct_answers / total_questions, 2) when
\* its total_questions > 0 and 0 otherwise.
C12_AccuracyIsRoundedRatio ==
    (pc = "processed" /\ IsResult(processed_data)) =>
        LET overall == processed_data.overall_summary
        IN  /\ HasOverallSummary =>
                  /\ overall.total_questions_in_test > 0
                  /\ IsRounded(overall.accuracy_percent, 100 * overall.correct_answers,
                               overall.total_questions_in_test)
            /\ C12_GroupsMatch

\* C12 witness: a result with a concept answered correctly in 2 of 3
\* questions, whose accuracy is 66.67.
C12_Witness ==
    /\ pc = "processed"
    /\ HasOverallSummary
    /\ \E c \in DOMAIN processed_data.concept_performance :
          LET g == processed_data.concept_performance[c]
          IN  g.total_questions = 3 /\ g.correct_answers = 2 /\ g.accuracy_percent = 6667

\* C13: total_questions_in_test is the number of flattened questions, and
\* official_total_questions_header is test.totalQuestions when the record
\* declares it and the number of flattened questions otherwise.
C13_ProcessedAndOfficialTotals ==
    (pc = "processed" /\ HasOverallSummary) =>
        LET overall == processed_data.overall_summary
            declared == /\ "test" \in DOMAIN data.fields
                        /\ "totalQuestions" \in DOMAIN data.fields["test"]
        IN  /\ overall.total_questions_in_test = Len(RawQuestions)
            /\ overall.total_questions_in_test = Len(processed_data.raw_questions_df)
            /\ declared =>
                  overall.official_total_questions_header =
                      data.fields["test"]["totalQuestions"]
            /\ ~declared => overall.official_total_questions_header = Len(RawQuestions)

\* C13 witness: a result whose declared total, 75, is not the processed count.
C13_Witness ==
    /\ pc = "processed"
    /\ HasOverallSummary
    /\ processed_data.overall_summary.official_total_questions_header = 75
    /\ processed_data.overall_summary.total_questions_in_test = 5

RECURSIVE SumOf(_, _)
\* f[1] + ... + f[n]
SumOf(f, n) == IF n = 0 THEN 0 ELSE f[n] + SumOf(f, n - 1)

\* how many entries of the raw question's questionId.concepts carry title c
ConceptEntries(q, c) ==
    LET concepts == Get(Get(q, "questionId", EmptyObj), "concepts", <<>>)
    IN  Cardinality({j \in DOMAIN concepts : Get(concepts[j], "title", "") = c})

\* how many entries of the raw question's questionId.concepts carry a title
TitledConceptEntries(q) ==
    LET concepts == Get(Get(q, "questionId", EmptyObj), "concepts", <<>>)
    IN  Cardinality({j \in DOMAIN concepts : Get(concepts[j], "title", "") # ""})

\* every concept title listed by some raw question
ListedConcepts ==
    UNION {LET concepts == Get(Get(RawQuestions[i], "questionId", EmptyObj), "concepts", <<>>)
           IN  {Get(concepts[j], "title", "") : j \in DOMAIN concepts}
           : i \in DOMAIN RawQuestions} \ {""}

\* C14: concept grouping is many-to-many. Every titled concept entry of every
\* question adds 1 to its concept's total_questions, 1 to correct_answers iff
\* the question is Correct, and the question's time to the average; untitled
\* entries are skipped; so the totals sum to the number of titled entries.
C14_ConceptsManyToMany ==
    (pc = "processed" /\ HasOverallSummary) =>
        LET raw == RawQuestions
            df == processed_data.raw_questions_df
            perf == processed_data.concept_performance
            n == Len(raw)
            titled == SumOf([i \in 1..n |-> TitledConceptEntries(raw[i])], n)
        IN  /\ Len(df) = n
            /\ DOMAIN perf = ListedConcepts
            /\ \A c \in DOMAIN perf :
                  LET entries == [i \in 1..n |-> ConceptEntries(raw[i], c)]
                      correct == [i \in 1..n |->
                                     IF df[i].status = "Correct" THEN entries[i] ELSE 0]
                      time == [i \in 1..n |-> entries[i] * df[i].time_taken_seconds]
                  IN  /\ perf[c].total_questions = SumOf(entries, n)
                      /\ perf[c].correct_answers = SumOf(correct, n)
                      /\ IsRounded(perf[c].average_time_seconds, SumOf(time, n),
                                   SumOf(entries, n))
            /\ Cardinality({<<c, k>> \in (DOMAIN perf) \X (1..titled) :
                               k <= perf[c].total_questions}) = titled

\* C14 witness: a result whose concept totals sum to more than its number of
\* questions, from a record holding a question with an untitled concept entry.
C14_Witness ==
    /\ pc = "processed"
    /\ HasOverallSummary
    /\ "vectors" \in DOMAIN processed_data.concept_performance
    /\ "energy" \in DOMAIN processed_data.concept_performance
    /\ processed_data.concept_performance["vectors"].total_questions
           + processed_data.concept_performance["energy"].total_questions
         > Len(processed_data.raw_questions_df)
    /\ \E i \in DOMAIN RawQuestions :
          TitledConceptEntries(RawQuestions[i])
              < Len(Get(Get(RawQuestions[i], "questionId", EmptyObj), "concepts", <<>>))

\* questionId.chapters of a raw question, [] when missing
ListedChapters(q) == Get(Get(q, "questionId", EmptyObj), "chapters", <<>>)

\* the title of the j-th listed chapter, empty when it has none
ListedChapterTitle(q, j) == Get(ListedChapters(q)[j], "title", "")

\* the title of the first listed chapter that has a non-empty title
FirstTitledChapter(q) ==
    LET titled == {j \in DOMAIN ListedChapters(q) : ListedChapterTitle(q, j) # ""}
    IN  IF titled = {} THEN "Unknown Chapter"
        ELSE ListedChapterTitle(q, CHOOSE j \in titled : \A k \in titled : j <= k)

\* each question is counted in at most one group of chapter_performance
C15_AtMostOneGroup ==
    LET perf == processed_data.chapter_performance
        df == processed_data.raw_questions_df
    IN  /\ \A c \in DOMAIN perf :
              perf[c].total_questions =
                  Cardinality({i \in DOMAIN df : df[i].chapter = c})
        /\ DOMAIN perf \subseteq {df[i].chapter : i \in DOMAIN df}

\* C15 as stated: a flattened question's chapter is the title of the first
\* chapter listed in questionId.chapters, "Unknown Chapter" when the list is
\* missing or empty, and each question is counted in at most one chapter group.
C15_FirstListedChapter ==
    (pc = "processed" /\ HasOverallSummary) =>
        LET df == processed_data.raw_questions_df
        IN  /\ Len(df) = Len(RawQuestions)
            /\ \A i \in DOMAIN df :
                  df[i].chapter = IF ListedChapters(RawQuestions[i]) = <<>>
                                  THEN "Unknown Chapter"
                                  ELSE ListedChapterTitle(RawQuestions[i], 1)
            /\ C15_AtMostOneGroup

\* C15 amended: a flattened question's chapter is the title of the first
\* listed chapter that has a non-empty title, "Unknown Chapter" when the list
\* is missing, empty or holds no titled chapter; chapters after that one never
\* contribute, so each question is counted in at most one chapter group.
C15_FirstTitledChapter ==
    (pc = "processed" /\ HasOverallSummary) =>
        LET df == processed_data.raw_questions_df
        IN  /\ Len(df) = Len(RawQuestions)
            /\ \A i \in DOMAIN df : df[i].chapter = FirstTitledChapter(RawQuestions[i])
            /\ C15_AtMostOneGroup

\* C15 witness: a result whose questions list Kinematics only after Optics,
\* behind an untitled chapter, and whose only chapter group is Optics.
C15_Witness ==
    /\ pc = "processed"
    /\ HasOverallSummary
    /\ DOMAIN processed_data.chapter_performance = {"Optics"}
    /\ \E i \in DOMAIN RawQuestions :
          /\ Len(ListedChapters(RawQuestions[i])) = 3
          /\ ListedChapterTitle(RawQuestions[i], 1) = ""
          /\ ListedChapterTitle(RawQuestions[i], 3) = "Kinematics"

\* the mean of time_taken_seconds over the rows of a status, in hundredths
IsMeanTimeOf(v, df, status) ==
    LET rows == {i \in DOMAIN df : df[i].status = status}
        time == [i \in DOMAIN df |->
                    IF df[i].status = status THEN df[i].time_taken_seconds ELSE 0]
    IN  IF rows = {} THEN v = 0
        ELSE IsRounded(v, SumOf(time, Len(df)), Cardinality(rows))

C16_MeansMatch ==
    LET summary == processed_data.time_accuracy_summary
        df == processed_data.raw_questions_df
    IN  /\ DOMAIN summary = {"avg_time_per_correct_q_seconds",
                             "avg_time_per_incorrect_q_seconds"}
        /\ IsMeanTimeOf(summary.avg_time_per_correct_q_seconds, df, "Correct")
        /\ IsMeanTimeOf(summary.avg_time_per_incorrect_q_seconds, df, "Incorrect")

\* C16: for every record with at least one question, time_accuracy_summary
\* holds the mean time of the Correct questions and the mean time of the
\* Incorrect questions, each 0 when its subgroup is empty.
C16_TimeAccuracyForEveryRecord ==
    (pc = "processed" /\ RawQuestions # <<>>) =>
        /\ IsResult(processed_data)
        /\ C16_MeansMatch

\* the rows of the result's flat questions whose column has the value
RowsWith(column, value) ==
    {i \in DOMAIN processed_data.raw_questions_df :
        processed_data.raw_questions_df[i][column] = value}

\* the summary regrouped from the flat questions with observed counts
IsRegrouped(g, rows) ==
    LET df == processed_data.raw_questions_df
        time == [i \in DOMAIN df |-> IF i \in rows THEN df[i].time_taken_seconds ELSE 0]
    IN  /\ g.total_questions = Cardinality(rows)
        /\ g.correct_answers = Cardinality({i \in rows : df[i].status = "Correct"})
        /\ IsRounded(g.average_time_seconds, SumOf(time, Len(df)), Cardinality(rows))
        /\ AccuracyMatches(g.accuracy_percent, g.correct_answers, g.total_questions)

\* C17: regrouping the result's flat questions by chapter (by difficulty) with
\* observed counts reproduces chapter_performance (difficulty_performance);
\* the grouping leaves out the groups named "Unknown Chapter" and
\* "Unknown Difficulty", as lines 142 and 155 do.
C17_RegroupingReproduces ==
    (pc = "processed" /\ HasOverallSummary) =>
        LET df == processed_data.raw_questions_df
            chapters == processed_data.chapter_performance
            difficulties == processed_data.difficulty_performance
        IN  /\ DOMAIN chapters = {df[i].chapter : i \in DOMAIN df} \ {"Unknown Chapter"}
            /\ \A c \in DOMAIN chapters : IsRegrouped(chapters[c], RowsWith("chapter", c))
            /\ DOMAIN difficulties =
                   {df[i].difficulty : i \in DOMAIN df} \ {S_UnknownDifficulty}
            /\ \A d \in DOMAIN difficulties :
                  IsRegrouped(difficulties[d], RowsWith("difficulty", d))

\* C17 witness: a result with two chapter groups and two difficulty groups
\* whose flat questions hold a question of "Unknown Chapter" and an Incorrect
\* question in a group of two.
C17_Witness ==
    /\ pc = "processed"
    /\ HasOverallSummary
    /\ Cardinality(DOMAIN processed_data.chapter_performance) = 2
    /\ Cardinality(DOMAIN processed_data.difficulty_performance) >= 2
    /\ RowsWith("chapter", "Unknown Chapter") # {}
    /\ \E c \in DOMAIN processed_data.chapter_performance :
          /\ processed_data.chapter_performance[c].total_questions = 2
          /\ processed_data.chapter_performance[c].correct_answers = 0

\* load_data has returned to line 19 of main.py, or raised through it
LoadDone == pc # "run_load" /\ log # <<>> /\ log[1] = "load_data"

\* load_data raised instead of returning
LoadRaised == LoadDone /\ run_result = "raised" /\ "process_student_data" \notin Range(log)

\* C19: load_data returns the first element of a non-empty list, the object
\* itself for an object, and None, without raising, for any other parsed
\* value (empty list, number, string, null).
C19_ShapeResolution ==
    (LoadDone /\ json_file.kind = "json") =>
        LET parsed == json_file.value
        IN  /\ ~LoadRaised
            /\ (parsed.kind = "list" /\ parsed.items # <<>>) => raw_data = parsed.items[1]
            /\ parsed.kind = "obj" => raw_data = parsed
            /\ (parsed.kind \notin {"list", "obj"} \/ parsed = List(<<>>)) =>
                  raw_data = Null

\* C19 witness: a file holding a list of a record and a number was loaded as
\* that record.
C19_Witness ==
    /\ LoadDone
    /\ json_file.kind = "json"
    /\ json_file.value.kind = "list"
    /\ Len(json_file.value.items) = 2
    /\ json_file.value.items[1] \in RunRecords
    /\ json_file.value.items[2] = Num(5)
    /\ raw_data = json_file.value.items[1]

\* the diagnostics printed by the handlers of lines 20-28
LoadDiagnostics ==
    {"Error: File not found", "Error: Could not decode JSON",
     "An unexpected error occurred while loading"}

\* C20: for a missing file, malformed JSON or any other failure while reading,
\* load_data raises nothing, returns None and prints a diagnostic, and the
\* pipeline returns False without calling process_student_data.
C20_LoadFailureAborts ==
    (LoadDone /\ json_file.kind \in {"missing", "malformed", "unreadable"}) =>
        /\ ~LoadRaised
        /\ exc = "none"
        /\ raw_data = Null
        /\ \E i \in DOMAIN log : log[i] \in LoadDiagnostics
        /\ pc = "run_done"
        /\ run_result = "False"
        /\ "process_student_data" \notin Range(log)
        /\ processed_data = Null

\* C20 witness: the run on a file that cannot be decoded as UTF-8 has ended
\* with False after the diagnostic of line 27.
C20_Witness ==
    /\ pc = "run_done"
    /\ json_file.kind = "unreadable"
    /\ json_file.error = "UnicodeDecodeError"
    /\ run_result = "False"
    /\ log = <<"load_data", "An unexpected error occurred while loading",
               "Failed to load data. Aborting for this file.">>

\* generation failed: no model, no context, or anything but a non-blank text
GenerationFailed ==
    \/ ~model
    \/ processed_data_str \in {<<>>, S_NoData}
    \/ service.kind # "text"
    \/ IsBlank(service.text)

\* C21: every failure outcome of generate_feedback is returned as a string
\* that begins with "Error:", and a returned string without that prefix is
\* the generated narrative.
C21_FailuresHaveErrorPrefix ==
    pc = "feedback_done" =>
        /\ GenerationFailed => StartsWith(ai_feedback, S_ErrorPrefix)
        /\ ~StartsWith(ai_feedback, S_ErrorPrefix) =>
              (service.kind = "text" /\ ai_feedback = service.text)

\* C22: when narrative generation fails for an analyzed record, the report is
\* still generated, it shows the failure as the warning paragraph and never
\* as narrative, and the run is not logged as feedback received successfully.
C22_FailureShownAsWarning ==
    (pc = "run_done" /\ run_result = "True" /\ GenerationFailed) =>
        /\ report # Null
        /\ report.feedback_section = "warning"
        /\ "AI feedback received successfully" \notin Range(log)

\* the functions run_full_analysis_and_report_generation has called, in order
Calls ==
    SelectSeq(log, LAMBDA entry :
        entry \in {"load_data", "process_student_data", "format_data_for_llm",
                   "generate_feedback", "generate_pdf_report"})

StepOrder ==
    <<"load_data", "process_student_data", "format_data_for_llm", "generate_feedback",
      "generate_pdf_report">>

IsPrefix(s, t) == Len(s) <= Len(t) /\ SubSeq(t, 1, Len(s)) = s

\* C25: the steps run in the order load_data, process_student_data,
\* format_data_for_llm/generate_feedback, generate_pdf_report, each at most
\* once; a falsy record from load_data ends the run with False before any
\* other step; None from process_student_data ends it with False before
\* feedback and report; True is returned only after generate_pdf_report.
C25_StepOrder ==
    /\ IsPrefix(Calls, StepOrder)
    /\ (LoadDone /\ ~Truthy(raw_data)) =>
          (Calls = <<"load_data">> /\ pc = "run_done" /\ run_result = "False")
    /\ (Len(Calls) >= 2 /\ exc = "none" /\ processed_data = Null) =>
          (Calls = SubSeq(StepOrder, 1, 2) /\ pc = "run_done" /\ run_result = "False")
    /\ run_result = "True" => Calls = StepOrder

\* C25 witness: a run that returned True after its five calls, the last of
\* them generate_pdf_report.
C25_Witness ==
    /\ pc = "run_done"
    /\ run_result = "True"
    /\ Calls = StepOrder
    /\ report # Null

\* C29: format_data_for_llm leaves the caller's processed_data unchanged,
\* raw_questions_df included, although the dictionary it formats has no
\* raw_questions_df; generate_pdf_report receives exactly the result
\* process_student_data produced.
C29_ResultUnchangedByFormatting ==
    (pc \in {"run_report", "run_done"} /\ "format_data_for_llm" \in Range(log)) =>
        LET produced == process_student_data(raw_data).value
        IN  /\ processed_data = produced
            /\ "raw_questions_df" \in DOMAIN processed_data
            /\ "raw_questions_df" \notin DOMAIN data_for_llm_context
            /\ DOMAIN data_for_llm_context = DOMAIN produced \ {"raw_questions_df"}
            /\ report # Null => report.processed_data = produced

\* C29 witness: a report was generated from a result with four flat questions
\* after its context was formatted without them.
C29_Witness ==
    /\ pc = "run_done"
    /\ report # Null
    /\ Len(report.processed_data.raw_questions_df) = 4
    /\ "raw_questions_df" \notin DOMAIN data_for_llm_context

\* C23: a loader or engine failure on one file never prevents the later files
\* from being processed: the loop is never left by an exception, the files
\* are attempted once each in list order, and at the summary
\* successful_reports + failed_reports is the number of files.
C23_BatchIsolation ==
    /\ pc # "batch_crashed"
    /\ IsPrefix(files_attempted, json_files_to_process)
    /\ pc = "batch_summary" =>
          /\ files_attempted = json_files_to_process
          /\ successful_reports + failed_reports = Len(json_files_to_process)

\* C24: two calls of process_student_data on different records, interleaved
\* in any order, each return what the call returns when run alone.
C24_InterleavedCallsAgree ==
    pc = "pair" =>
        \A p \in Calls2 :
            local_pc[p] = "done" => results[p] = process_student_data(records[p])

\* C24 witness: two calls on different records have both returned full
\* results, after the second flattened its questions before the first
\* summarized its own.
C24_Witness ==
    /\ pc = "pair"
    /\ records[1] # records[2]
    /\ \A p \in Calls2 :
          /\ local_pc[p] = "done"
          /\ results[p].raised = "none"
          /\ IsResult(results[p].value)
          /\ results[p].value.raw_questions_df # <<>>
    /\ results[1].value.raw_questions_df # results[2].value.raw_questions_df

\* C26: in a result with a populated overall_summary the three status counts
\* partition the processed questions: correct + incorrect + unattempted is
\* total_questions_in_test, which is the number of flat questions;
\* attempted is correct + incorrect; and unattempted is the number of flat
\* questions whose status is Unattempted.
C26_StatusCountsPartition ==
    (pc = "processed" /\ HasOverallSummary) =>
        LET o == processed_data.overall_summary
        IN  /\ o.correct_answers + o.incorrect_answers + o.unattempted_answers
                   = o.total_questions_in_test
            /\ o.total_questions_in_test = Len(processed_data.raw_questions_df)
            /\ o.attempted_answers = o.correct_answers + o.incorrect_answers
            /\ o.unattempted_answers = Cardinality(RowsWith("status", "Unattempted"))
            /\ o.correct_answers = Cardinality(RowsWith("status", "Correct"))
            /\ o.incorrect_answers = Cardinality(RowsWith("status", "Incorrect"))

\* C26 witness: a result whose questions include correct, incorrect and
\* unattempted ones.
C26_Witness ==
    /\ pc = "processed"
    /\ HasOverallSummary
    /\ processed_data.overall_summary.correct_answers >= 2
    /\ processed_data.overall_summary.incorrect_answers >= 1
    /\ processed_data.overall_summary.unattempted_answers >= 1
    /\ processed_data.overall_summary.attempted_answers
           < processed_data.overall_summary.total_questions_in_test

\* C27: in every GroupSummary of every grouping map of a result,
\* correct_answers is at most total_questions and accuracy_percent lies
\* between 0 and 100, however many questions a subject has.
C27_CorrectWithinTotal ==
    (pc = "processed" /\ IsResult(processed_data)) =>
        \A g \in GroupSummaries(processed_data) :
            /\ g.correct_answers <= g.total_questions
            /\ 0 <= g.accuracy_percent
            /\ g.accuracy_percent <= 10000

\* C28: two distinct input paths processed with the same output directory
\* get distinct output PDF paths.
C28_DistinctPathsDistinctReports ==
    pc = "names" =>
        \A i, j \in DOMAIN output_pdf_filenames :
            json_file_paths[i] # json_file_paths[j]
                => output_pdf_filenames[i] # output_pdf_filenames[j]

\* the groups of the map that are not listed
Unlisted ==
    {g \in Range(chapter_perf_data) : \A i \in DOMAIN highlight_lines : highlight_lines[i] # g}

\* C30: the highlights list groups of the map, each once, in non-decreasing
\* accuracy; no unlisted group has a lower accuracy than a listed one; every
\* group below 60 is listed; at least min(5, n) groups are listed; no group
\* of accuracy >= 60 is listed after the fifth; a non-empty map lists at
\* least one group.
C30_HighlightsLowestFirst ==
    pc = "highlighted" =>
        LET n == Len(chapter_perf_data)
            k == Len(highlight_lines)
        IN  /\ \A i \in 1..k : highlight_lines[i] \in Range(chapter_perf_data)
            /\ \A i, j \in 1..k : i # j => highlight_lines[i] # highlight_lines[j]
            /\ \A i, j \in 1..k :
                  i < j => highlight_lines[i].accuracy_percent
                               <= highlight_lines[j].accuracy_percent
            /\ \A g \in Unlisted : \A i \in 1..k :
                  highlight_lines[i].accuracy_percent <= g.accuracy_percent
            /\ \A g \in Unlisted : g.accuracy_percent >= 6000
            /\ k >= (IF n < 5 THEN n ELSE 5)
            /\ \A i \in 1..k : i > 5 => highlight_lines[i].accuracy_percent < 6000
            /\ n > 0 => k >= 1

\* C30 witness: a map of seven groups, not in accuracy order, of which six
\* are below 60 and all listed, and the one at 60 or above is left out.
C30_Witness ==
    /\ pc = "highlighted"
    /\ Len(chapter_perf_data) = 7
    /\ chapter_perf_data[1].accuracy_percent = 6000
    /\ chapter_perf_data[2].accuracy_percent = 5999
    /\ chapter_perf_data[3].accuracy_percent = 0
    /\ Len(highlight_lines) = 6
    /\ Unlisted = {chapter_perf_data[1]}

=============================================================================
